---- MODULE Spec2Model ----
(***************************************************************************)
(* A model of the GitLab REST client: the HTTP error classifier, the      *)
(* single-request GET primitive, the paginator, the pipeline poller, the  *)
(* CI/CD variable upsert and listing, the client constructor, the project *)
(* identifier encoding, the file upload and the endpoint wrappers that    *)
(* issue one request (merge_mr and create_mr_discussion among them).      *)
(*                                                                         *)
(* Python strings are modelled as sequences of one-character strings, so  *)
(* that slicing, stripping, splitting and prefix tests are computed.      *)
(* Python None is the record NoneVal, and the string "None" where the     *)
(* other values are status names.                                          *)
(***************************************************************************)
EXTENDS Integers, Sequences, FiniteSets, TLC

VARIABLES
    gPc,            \* get(): "idle" | "done"
    gResp,          \* get(): the response the transport produced
    gOut,           \* get(): what the call returned or raised
    gRequests,      \* get(): number of client.get calls issued
    serverPages,    \* the pages the server holds for the listed endpoint
    pPc,            \* get_paginated(): "idle" | "loop" | "exit" | "done" | "raised"
    per_page,       \* get_paginated(): the per_page argument
    max_pages,      \* get_paginated(): the max_pages argument
    params,         \* get_paginated(): the params dict (per_page, page)
    all_results,    \* get_paginated(): the accumulator
    pages_fetched,  \* get_paginated(): pages appended so far
    pRequests,      \* get_paginated(): the params of every client.get issued
    pWarned,        \* get_paginated(): the max_pages warning was logged
    pOut,           \* get_paginated(): what the call returned or raised
    wPc,            \* wait_for_pipeline(): "idle" | "loop" | "sleep" | "post" | "jobs" | "logs" | "done" | "raised"
    now,            \* the wall clock time.time() reads
    wArgs,          \* wait_for_pipeline(): pipeline_id, timeout_seconds, check_interval, include_failed_logs
    start_time,     \* wait_for_pipeline(): time at entry
    checks,         \* wait_for_pipeline(): iteration counter
    elapsed,        \* wait_for_pipeline(): elapsed time read at the top of the iteration
    final_status,   \* wait_for_pipeline(): the status the loop ended with
    pipeline,       \* wait_for_pipeline(): the last fetched pipeline snapshot
    result,         \* wait_for_pipeline(): the result dict
    pending,        \* wait_for_pipeline(): failed_jobs[:5] still to be detailed
    failed_job_details, \* wait_for_pipeline(): the detail records built so far
    wOut,           \* wait_for_pipeline(): what the call returned or raised
    statusFetches,  \* every response to a pipeline status fetch, in order
    fetchTimes,     \* the time every pipeline status fetch took, in order
    jobFetches,     \* every response to a job listing request, in order
    logFetches,     \* every response to a job log request, with the job id
    serverVars,     \* the CI/CD variables the server holds: key -> value or Absent
    uPc,            \* set_project_variable(): "idle" | "write" | "done" | "raised"
    uArgs,          \* set_project_variable(): key, value
    existing,       \* set_project_variable(): what the probe returned
    uRequests,      \* set_project_variable(): every request issued, with its answer
    uOut,           \* set_project_variable(): what the call returned or raised
    env,            \* os.environ: GITLAB_TOKEN, GITLAB_BASE_URL, GITLAB_URL
    cPc,            \* __init__(): "idle" | "probe" | "done" | "raised"
    cArgs,          \* __init__(): token, base_url, validate, lazy
    self,           \* __init__(): the attributes assigned so far
    cRequests,      \* __init__(): every GET issued: its endpoint and its answer
    cOut,           \* __init__(): the client returned or the error raised
    project_id,     \* _encode_project_id(): the argument
    encoded_id,     \* _encode_project_id(): the string returned
    fPc,            \* upload_file(): "idle" | "post" | "done" | "raised"
    source,         \* upload_file(): the source argument
    fRequests,      \* upload_file(): every httpx.post issued
    fOut,           \* upload_file(): what the call returned or raised
    lOut,           \* list_project_variables(): what the call returned or raised
    oPc,            \* an endpoint wrapper: "idle" | "done" | "raised"
    oCall,          \* an endpoint wrapper: the operation called and its arguments
    oRequests,      \* an endpoint wrapper: every request issued through self.client
    oOut            \* an endpoint wrapper: what the call returned or raised

varsGet == <<gPc, gResp, gOut, gRequests>>

varsPag == <<serverPages, pPc, per_page, max_pages, params, all_results, pages_fetched,
             pRequests, pWarned, pOut>>

varsWait == <<wPc, now, wArgs, start_time, checks, elapsed, final_status, pipeline,
              result, pending, failed_job_details, wOut, statusFetches, fetchTimes,
              jobFetches, logFetches>>

varsUp == <<serverVars, uPc, uArgs, existing, uRequests, uOut>>

varsCtor == <<env, cPc, cArgs, self, cRequests, cOut>>

varsEnc == <<project_id, encoded_id>>

varsFile == <<fPc, source, fRequests, fOut>>

varsList == <<lOut>>

varsOps == <<oPc, oCall, oRequests, oOut>>

vars == <<varsGet, varsPag, varsWait, varsUp, varsCtor, varsEnc, varsFile, varsList, varsOps>>

\* what an operation of one component leaves alone
exceptGet == <<varsPag, varsWait, varsUp, varsCtor, varsEnc, varsFile, varsList, varsOps>>
exceptPag == <<varsGet, varsWait, varsUp, varsCtor, varsEnc, varsFile, varsList, varsOps>>
exceptWait == <<varsGet, varsPag, varsUp, varsCtor, varsEnc, varsFile, varsList, varsOps>>
exceptUp == <<varsGet, varsPag, varsWait, varsCtor, varsEnc, varsFile, varsList, varsOps>>
exceptCtor == <<varsGet, varsPag, varsWait, varsUp, varsEnc, varsFile, varsList, varsOps>>
exceptEnc == <<varsGet, varsPag, varsWait, varsUp, varsCtor, varsFile, varsList, varsOps>>
exceptFile == <<varsGet, varsPag, varsWait, varsUp, varsCtor, varsEnc, varsList, varsOps>>
exceptList == <<varsGet, varsWait, varsUp, varsCtor, varsEnc, varsFile, varsOps>>
exceptOps == <<varsGet, varsPag, varsWait, varsUp, varsCtor, varsEnc, varsFile, varsList>>

NoneVal == [py |-> "None"]

(***************************************************************************)
(* Strings                                                                 *)
(***************************************************************************)

\* s[:n]
Take(s, n) == SubSeq(s, 1, IF Len(s) < n THEN Len(s) ELSE n)

\* s[-n:] for n > 0
LastN(s, n) == SubSeq(s, IF Len(s) > n THEN Len(s) - n + 1 ELSE 1, Len(s))

\* s.startswith(p)
StartsWith(s, p) == Len(s) >= Len(p) /\ SubSeq(s, 1, Len(p)) = p

RECURSIVE Digits(_)
\* the decimal digits of a natural number, as str(n) gives them
Digits(n) ==
    LET d == <<"0", "1", "2", "3", "4", "5", "6", "7", "8", "9">>
    IN  IF n < 10 THEN <<d[n + 1]>> ELSE Digits(n \div 10) \o <<d[(n % 10) + 1]>>

Printable == <<"a", "b", "c", "d", "e", "f", "g">>

\* a text of n characters in which position i holds a character that
\* depends on i, so that a cut at the wrong place is visible
TextOfLen(n) == [i \in 1..n |-> Printable[(i % Len(Printable)) + 1]]

(***************************************************************************)
(* Error classifier: _raise_for_status                                     *)
(***************************************************************************)

BodyLimit == 500

AuthPrefix == <<"A", "u", "t", "h", "e", "n", "t", "i", "c", "a", "t", "i", "o", "n", " ", "f", "a", "i", "l", "e", "d", ":", " ">>
NotFoundPrefix == <<"N", "o", "t", " ", "f", "o", "u", "n", "d", ":", " ">>
ApiPrefix == <<"A", "P", "I", " ", "e", "r", "r", "o", "r", " ">>
ApiSep == <<":", " ">>

\* mutant of TruncatedBody: the slice is forgotten
TruncatedBodyNoCut(text) == text

\* body = e.response.text[:500] if e.response.text else ""
TruncatedBody(text) == IF text # <<>> THEN Take(text, BodyLimit) ELSE <<>>

\* the exception objects, with the attributes their constructors set
AuthenticationError(message) ==
    [kind |-> "AuthenticationError", message |-> message]

NotFoundError(message, status_code) ==
    [kind |-> "NotFoundError", message |-> message, status_code |-> status_code]

APIError(message, status_code, response_body) ==
    [kind |-> "APIError", message |-> message, status_code |-> status_code,
     response_body |-> response_body]

\* mutant of RaiseForStatus: the 404 branch is missing
RaiseForStatusNo404(status, text) ==
    LET body == TruncatedBody(text)
    IN  IF status = 401 THEN AuthenticationError(AuthPrefix \o body)
        ELSE APIError(ApiPrefix \o Digits(status) \o ApiSep \o body, status, body)

\* the typed error _raise_for_status raises for an HTTPStatusError
RaiseForStatus(status, text) ==
    LET body == TruncatedBody(text)
    IN  IF status = 401 THEN AuthenticationError(AuthPrefix \o body)
        ELSE IF status = 404 THEN NotFoundError(NotFoundPrefix \o body, status)
        ELSE APIError(ApiPrefix \o Digits(status) \o ApiSep \o body, status, body)

(***************************************************************************)
(* Transport                                                               *)
(***************************************************************************)

\* httpx Response.raise_for_status raises HTTPStatusError unless 2xx
IsSuccess(status) == status >= 200 /\ status <= 299

\* httpx.RequestError: no response was received
RequestError == [kind |-> "RequestError"]

Returned(value) == [tag |-> "return", value |-> value]
Raised(error) == [tag |-> "raise", error |-> error]

Statuses == {200, 201, 204, 301, 400, 401, 403, 404, 409, 422, 429, 500, 502, 503}

\* how far past BodyLimit the response texts of the model reach
MaxOverrun == 2

TextLens == (0..2) \cup ((BodyLimit - 2)..(BodyLimit + MaxOverrun))

Texts == {TextOfLen(n) : n \in TextLens}

\* a response: its status, its text and, where it is read, its decoded body
HttpResponse(status, text, json) ==
    [net |-> FALSE, status |-> status, text |-> text, json |-> json]

\* no response: the request failed on the network
NetworkFailure == [net |-> TRUE]

GetResponses ==
    {HttpResponse(s, t, [decoded |-> t]) : s \in Statuses, t \in Texts}
    \cup {NetworkFailure}

\* mutant of GetOutcome: a failure is swallowed and an empty object is
\* returned, as by the `return {}` that follows _raise_for_status
GetOutcomeSwallowed(resp) ==
    IF ~resp.net /\ IsSuccess(resp.status) THEN Returned(resp.json)
    ELSE Returned([status |-> "None", web_url |-> <<>>])

\* what get() does with the response of its one request
GetOutcome(resp) ==
    IF resp.net THEN Raised(RequestError)
    ELSE IF IsSuccess(resp.status) THEN Returned(resp.json)
    ELSE Raised(RaiseForStatus(resp.status, resp.text))

IdleGet ==
    /\ gPc = "idle"
    /\ gResp = NoneVal
    /\ gOut = NoneVal
    /\ gRequests = 0

\* BaseClientMixin.get: one request, then the decoded body or a typed error
Get(resp) ==
    /\ gPc = "idle"
    /\ gPc' = "done"
    /\ gResp' = resp
    /\ gRequests' = gRequests + 1
    /\ gOut' = GetOutcome(resp)
    /\ UNCHANGED exceptGet

(***************************************************************************)
(* Paginator: get_paginated                                                *)
(***************************************************************************)

\* the largest number of pages the server holds
MaxServerPages == 3

\* the largest max_pages argument
MaxMaxPages == 3

\* the numbers of items a page may hold
PageCounts == 0..2

PerPageCeiling == 100

\* the per_page arguments: below, at and above the ceiling
PerPageArgs == {20, 100, 101}

\* the max_pages arguments: any integer up to MaxMaxPages, a negative one
\* included
MaxPagesArgs == (-1)..MaxMaxPages

\* the items of page p when it holds n of them: item i of page p is <<p, i>>
PageItems(p, n) == [i \in 1..n |-> <<p, i>>]

\* the x-next-page header of a page: absent, empty, or the next page number
NextHeaders == {"absent", "empty", "present"}

\* a page the server holds: a listing with its header, or a failure
OkPages == [kind : {"ok"}, count : PageCounts, next : NextHeaders]
FailPages == [kind : {"fail"}, status : {401, 404, 500}] \cup {[kind |-> "net"]}
ServerPageKinds == OkPages \cup FailPages

ErrorText == <<"e", "r", "r">>

\* the response to a GET of the page numbered p; past its last page the
\* server answers with an empty listing
PageResponse(pages, p) ==
    IF p > Len(pages)
    THEN [net |-> FALSE, status |-> 200, items |-> <<>>, headers |-> [x \in {} |-> <<>>]]
    ELSE LET pg == pages[p]
         IN  IF pg.kind = "net" THEN NetworkFailure
             ELSE IF pg.kind = "fail"
             THEN HttpResponse(pg.status, ErrorText, NoneVal)
             ELSE [net |-> FALSE, status |-> 200, items |-> PageItems(p, pg.count),
                   headers |-> IF pg.next = "absent" THEN [x \in {} |-> <<>>]
                               ELSE IF pg.next = "empty" THEN [x \in {"x-next-page"} |-> <<>>]
                               ELSE [x \in {"x-next-page"} |-> Digits(p + 1)]]

\* mutant of ClampPerPage: the requested size is sent as it is
ClampPerPageNone(size) == size

\* min(per_page, 100)
ClampPerPage(size) == IF size < PerPageCeiling THEN size ELSE PerPageCeiling

\* mutant of LoopCondition: the first page is fetched before the ceiling
\* is looked at
LoopConditionAtLeastOnce(fetched, ceiling) == fetched = 0 \/ fetched < ceiling

\* mutant of LoopCondition: one page too many
LoopConditionOffByOne(fetched, ceiling) == fetched <= ceiling

\* while pages_fetched < max_pages
LoopCondition(fetched, ceiling) == fetched < ceiling

\* "x-next-page" not in response.headers or not response.headers["x-next-page"]
NoNextPage(headers) ==
    "x-next-page" \notin DOMAIN headers \/ headers["x-next-page"] = <<>>

\* mutant of NextPageParams: the page number is not advanced
NextPageParamsStuck(p) == p

\* params["page"] += 1
NextPageParams(p) == [p EXCEPT !.page = @ + 1]

\* if pages_fetched >= max_pages: logger.warning(...)
HitMaxPages(fetched, ceiling) == fetched >= ceiling

IdlePag ==
    /\ pPc = "idle"
    /\ per_page = 0
    /\ max_pages = 0
    /\ params = NoneVal
    /\ all_results = <<>>
    /\ pages_fetched = 0
    /\ pRequests = <<>>
    /\ pWarned = FALSE
    /\ pOut = NoneVal

\* get_paginated up to the loop: the params and the empty accumulator
PagStart(size, ceiling) ==
    /\ pPc = "idle"
    /\ pPc' = "loop"
    /\ per_page' = size
    /\ max_pages' = ceiling
    /\ params' = [per_page |-> ClampPerPage(size), page |-> 1]
    /\ all_results' = <<>>
    /\ pages_fetched' = 0
    /\ UNCHANGED <<serverPages, pRequests, pWarned, pOut>>
    /\ UNCHANGED exceptPag

\* one iteration of the loop: a GET, then raise, break or go on
PagFetch ==
    /\ pPc = "loop"
    /\ LoopCondition(pages_fetched, max_pages)
    /\ LET resp == PageResponse(serverPages, params.page)
       IN  /\ pRequests' = Append(pRequests, params)
           /\ IF resp.net
              THEN \* httpx.RequestError is not caught here
                   /\ pPc' = "raised"
                   /\ pOut' = Raised(RequestError)
                   /\ UNCHANGED <<all_results, pages_fetched, params>>
              ELSE IF ~IsSuccess(resp.status)
              THEN /\ pPc' = "raised"
                   /\ pOut' = Raised(RaiseForStatus(resp.status, resp.text))
                   /\ UNCHANGED <<all_results, pages_fetched, params>>
              ELSE IF resp.items = <<>>
              THEN /\ pPc' = "exit"
                   /\ UNCHANGED <<all_results, pages_fetched, params, pOut>>
              ELSE /\ all_results' = all_results \o resp.items
                   /\ pages_fetched' = pages_fetched + 1
                   /\ IF NoNextPage(resp.headers)
                      THEN pPc' = "exit" /\ UNCHANGED params
                      ELSE pPc' = "loop" /\ params' = NextPageParams(params)
                   /\ UNCHANGED pOut
    /\ UNCHANGED <<serverPages, per_page, max_pages, pWarned>>
    /\ UNCHANGED exceptPag

\* after the loop: the warning, then the accumulated results
PagReturn ==
    /\ pPc = "exit" \/ (pPc = "loop" /\ ~LoopCondition(pages_fetched, max_pages))
    /\ pPc' = "done"
    /\ pWarned' = HitMaxPages(pages_fetched, max_pages)
    /\ pOut' = Returned(all_results)
    /\ UNCHANGED <<serverPages, per_page, max_pages, params, all_results, pages_fetched, pRequests>>
    /\ UNCHANGED exceptPag

(***************************************************************************)
(* Log text: str.strip, str.split, str.join                                *)
(***************************************************************************)

NL == "\n"
Whitespace == {" ", NL, "\t", "\r"}

RECURSIVE LStrip(_)
LStrip(s) == IF s # <<>> /\ Head(s) \in Whitespace THEN LStrip(Tail(s)) ELSE s

RECURSIVE RStrip(_)
RStrip(s) ==
    IF s # <<>> /\ s[Len(s)] \in Whitespace THEN RStrip(SubSeq(s, 1, Len(s) - 1)) ELSE s

\* s.strip()
Strip(s) == RStrip(LStrip(s))

RECURSIVE SplitLines(_)
\* s.split("\n"): always at least one line
SplitLines(s) ==
    IF \A i \in 1..Len(s) : s[i] # NL THEN <<s>>
    ELSE LET k == CHOOSE i \in 1..Len(s) : s[i] = NL /\ \A j \in 1..(i - 1) : s[j] # NL
         IN  <<SubSeq(s, 1, k - 1)>> \o SplitLines(SubSeq(s, k + 1, Len(s)))

RECURSIVE JoinLines(_)
\* "\n".join(lines)
JoinLines(lines) ==
    IF lines = <<>> THEN <<>>
    ELSE IF Len(lines) = 1 THEN lines[1]
    ELSE lines[1] \o <<NL>> \o JoinLines(Tail(lines))

\* line.strip() is truthy
NonBlank(line) == Strip(line) # <<>>

TailLimit == 10

\* enrich_jobs_with_failure_logs: the last 10 non-blank lines of the log
FailureLogTail(full_log) ==
    JoinLines(LastN(SelectSeq(SplitLines(full_log), NonBlank), TailLimit))

\* wait_for_pipeline: lines = log.strip().split("\n"); "\n".join(lines[-10:])
LastLogLines(log) == JoinLines(LastN(SplitLines(Strip(log)), TailLimit))

Unavailable == <<"(", "l", "o", "g", " ", "u", "n", "a", "v", "a", "i", "l", "a", "b", "l", "e", ")">>

(***************************************************************************)
(* Poller: wait_for_pipeline                                               *)
(***************************************************************************)

TerminalStatuses == {"success", "failed", "canceled", "skipped"}

FailedJobsLimit == 5

\* the iterations the model follows one poll for
MaxChecks == 3

\* a job of a pipeline as the listing returns it
Job(id, status) ==
    [id |-> id, name |-> <<"j">> \o Digits(id), status |-> status,
     web_url |-> <<"/", "j", "/">> \o Digits(id)]

\* a listing of the jobs with the given statuses; GitLab lists the newest
\* job (the highest id) first
Listing(statuses) ==
    [i \in 1..Len(statuses) |-> Job(Len(statuses) - i + 1, statuses[i])]

\* len([j for j in jobs if j.get("status") == status])
CountStatus(jobs, status) == Cardinality({i \in 1..Len(jobs) : jobs[i].status = status})

\* result["job_summary"]
JobSummary(jobs) ==
    [total |-> Len(jobs), success |-> CountStatus(jobs, "success"),
     failed |-> CountStatus(jobs, "failed")]

IsFailedJob(j) == j.status = "failed"

\* mutant of SelectedFailedJobs: the cut is made before the filter
SelectedFailedJobsCutFirst(jobs) == SelectSeq(Take(jobs, FailedJobsLimit), IsFailedJob)

\* [j for j in jobs if j.get("status") == "failed"][:5]
SelectedFailedJobs(jobs) == Take(SelectSeq(jobs, IsFailedJob), FailedJobsLimit)

\* the job_detail dict before the log is fetched
JobDetail(job) ==
    [id |-> job.id, name |-> job.name, status |-> job.status, web_url |-> job.web_url]

\* mutant of IsTerminal: "skipped" is not taken as the end
IsTerminalNoSkipped(status) == status \in {"success", "failed", "canceled"}

\* mutant of IsTerminal: every status ends the loop
IsTerminalAlways(status) == TRUE

\* status in ("success", "failed", "canceled", "skipped")
IsTerminal(status) == status \in {"success", "failed", "canceled", "skipped"}

\* mutant of TimedOut: the elapsed time is never tested
TimedOutNever(e, timeout_seconds) == FALSE

\* mutant of TimedOut: the bound is compared with >=
TimedOutEarly(e, timeout_seconds) == e >= timeout_seconds

\* elapsed > timeout_seconds
TimedOut(e, timeout_seconds) == e > timeout_seconds

\* mutant of WantsEnrichment: the job list is fetched after a timeout too
WantsEnrichmentAlways(p, status) == p # NoneVal

\* pipeline and final_status != "timeout"
WantsEnrichment(p, status) == p # NoneVal /\ status # "timeout"

\* mutant of WantsFailedLogs: logs are fetched whatever the final status
WantsFailedLogsAlways(include, status) == include

\* include_failed_logs and final_status == "failed"
WantsFailedLogs(include, status) == include /\ status = "failed"

IdleWait ==
    /\ wPc = "idle"
    /\ now = 0
    /\ wArgs = NoneVal
    /\ start_time = 0
    /\ checks = 0
    /\ elapsed = 0
    /\ final_status = "None"
    /\ pipeline = NoneVal
    /\ result = NoneVal
    /\ pending = <<>>
    /\ failed_job_details = <<>>
    /\ wOut = NoneVal
    /\ statusFetches = <<>>
    /\ fetchTimes = <<>>
    /\ jobFetches = <<>>
    /\ logFetches = <<>>

\* entry of wait_for_pipeline, up to the loop
WaitStart(pipeline_id, timeout_seconds, check_interval, include_failed_logs) ==
    /\ wPc = "idle"
    /\ wPc' = "loop"
    /\ wArgs' = [pipeline_id |-> pipeline_id, timeout_seconds |-> timeout_seconds,
                 check_interval |-> check_interval,
                 include_failed_logs |-> include_failed_logs]
    /\ start_time' = now
    /\ checks' = 0
    /\ final_status' = "None"
    /\ pipeline' = NoneVal
    /\ UNCHANGED <<now, elapsed, result, pending, failed_job_details, wOut,
                   statusFetches, fetchTimes, jobFetches, logFetches>>
    /\ UNCHANGED exceptWait

\* mutant of WaitCheck: the timeout is tested before the terminal status
WaitCheckTimeoutFirst(resp, d) ==
    /\ wPc = "loop"
    /\ checks < MaxChecks
    /\ checks' = checks + 1
    /\ elapsed' = now - start_time
    /\ now' = now + d
    /\ statusFetches' = Append(statusFetches, resp)
    /\ fetchTimes' = Append(fetchTimes, d)
    /\ LET got == GetOutcome(resp)
       IN  IF got.tag = "raise"
           THEN /\ wPc' = "raised"
                /\ wOut' = got
                /\ UNCHANGED <<pipeline, final_status>>
           ELSE /\ pipeline' = got.value
                /\ wOut' = wOut
                /\ IF TimedOut(elapsed', wArgs.timeout_seconds)
                   THEN final_status' = "timeout" /\ wPc' = "post"
                   ELSE IF IsTerminal(got.value.status)
                   THEN final_status' = got.value.status /\ wPc' = "post"
                   ELSE final_status' = final_status /\ wPc' = "sleep"
    /\ UNCHANGED <<wArgs, start_time, result, pending, failed_job_details,
                   jobFetches, logFetches>>
    /\ UNCHANGED exceptWait

\* one iteration of the loop up to the sleep: the counter, the elapsed time,
\* the status fetch (taking d on the clock), then break, break or sleep
WaitCheck(resp, d) ==
    /\ wPc = "loop"
    /\ checks < MaxChecks
    /\ checks' = checks + 1
    /\ elapsed' = now - start_time
    /\ now' = now + d
    /\ statusFetches' = Append(statusFetches, resp)
    /\ fetchTimes' = Append(fetchTimes, d)
    /\ LET got == GetOutcome(resp)
       IN  IF got.tag = "raise"
           THEN /\ wPc' = "raised"
                /\ wOut' = got
                /\ UNCHANGED <<pipeline, final_status>>
           ELSE /\ pipeline' = got.value
                /\ wOut' = wOut
                /\ IF IsTerminal(got.value.status)
                   THEN final_status' = got.value.status /\ wPc' = "post"
                   ELSE IF TimedOut(elapsed', wArgs.timeout_seconds)
                   THEN final_status' = "timeout" /\ wPc' = "post"
                   ELSE final_status' = final_status /\ wPc' = "sleep"
    /\ UNCHANGED <<wArgs, start_time, result, pending, failed_job_details,
                   jobFetches, logFetches>>
    /\ UNCHANGED exceptWait

\* time.sleep(check_interval)
WaitSleep ==
    /\ wPc = "sleep"
    /\ wPc' = "loop"
    /\ now' = now + wArgs.check_interval
    /\ UNCHANGED <<wArgs, start_time, checks, elapsed, final_status, pipeline, result,
                   pending, failed_job_details, wOut, statusFetches, fetchTimes, jobFetches,
                   logFetches>>
    /\ UNCHANGED exceptWait

\* after the loop: the result dict; returned as it is unless the jobs are
\* to be fetched
WaitResult ==
    /\ wPc = "post"
    /\ LET r == [final_status |-> final_status,
                 pipeline_id |-> wArgs.pipeline_id,
                 pipeline_url |-> IF pipeline # NoneVal THEN pipeline.web_url ELSE NoneVal,
                 total_duration |-> now - start_time,
                 checks_performed |-> checks]
       IN  /\ result' = r
           /\ IF WantsEnrichment(pipeline, final_status)
              THEN wPc' = "jobs" /\ wOut' = wOut
              ELSE wPc' = "done" /\ wOut' = Returned(r)
    /\ UNCHANGED <<now, wArgs, start_time, checks, elapsed, final_status, pipeline,
                   pending, failed_job_details, statusFetches, fetchTimes, jobFetches, logFetches>>
    /\ UNCHANGED exceptWait

\* mutant of WaitJobs: the enrichment is not wrapped in a try block, so a
\* failure of the job listing leaves wait_for_pipeline
WaitJobsUnguarded(listing) ==
    /\ wPc = "jobs"
    /\ jobFetches' = Append(jobFetches, listing)
    /\ failed_job_details' = <<>>
    /\ IF listing.tag = "raise"
       THEN /\ wPc' = "raised"
            /\ wOut' = listing
            /\ UNCHANGED <<result, pending>>
       ELSE LET jobs == listing.value
                r == result @@ ("job_summary" :> JobSummary(jobs))
            IN  IF WantsFailedLogs(wArgs.include_failed_logs, final_status)
                THEN IF SelectedFailedJobs(jobs) = <<>>
                     THEN /\ result' = r @@ ("failed_jobs" :> <<>>)
                          /\ wPc' = "done"
                          /\ wOut' = Returned(result')
                          /\ pending' = <<>>
                     ELSE /\ result' = r
                          /\ wPc' = "logs"
                          /\ wOut' = wOut
                          /\ pending' = SelectedFailedJobs(jobs)
                ELSE /\ result' = r
                     /\ wPc' = "done"
                     /\ wOut' = Returned(r)
                     /\ pending' = <<>>
    /\ UNCHANGED <<now, wArgs, start_time, checks, elapsed, final_status, pipeline,
                   statusFetches, fetchTimes, logFetches>>
    /\ UNCHANGED exceptWait

\* get_pipeline_jobs and the job summary; a failure is caught and logged
WaitJobs(listing) ==
    /\ wPc = "jobs"
    /\ jobFetches' = Append(jobFetches, listing)
    /\ failed_job_details' = <<>>
    /\ IF listing.tag = "raise"
       THEN /\ wPc' = "done"
            /\ wOut' = Returned(result)
            /\ UNCHANGED <<result, pending>>
       ELSE LET jobs == listing.value
                r == result @@ ("job_summary" :> JobSummary(jobs))
            IN  IF WantsFailedLogs(wArgs.include_failed_logs, final_status)
                THEN IF SelectedFailedJobs(jobs) = <<>>
                     THEN /\ result' = r @@ ("failed_jobs" :> <<>>)
                          /\ wPc' = "done"
                          /\ wOut' = Returned(result')
                          /\ pending' = <<>>
                     ELSE /\ result' = r
                          /\ wPc' = "logs"
                          /\ wOut' = wOut
                          /\ pending' = SelectedFailedJobs(jobs)
                ELSE /\ result' = r
                     /\ wPc' = "done"
                     /\ wOut' = Returned(r)
                     /\ pending' = <<>>
    /\ UNCHANGED <<now, wArgs, start_time, checks, elapsed, final_status, pipeline,
                   statusFetches, fetchTimes, logFetches>>
    /\ UNCHANGED exceptWait

\* mutant of WaitLog: get_job_log is called without its own try block, so
\* its failure ends the enrichment in the outer handler
WaitLogUnguarded(got) ==
    /\ wPc = "logs"
    /\ LET job == Head(pending)
           detail == JobDetail(job) @@ ("last_log_lines" :> LastLogLines(got.value))
       IN  /\ logFetches' = Append(logFetches, [id |-> job.id, got |-> got])
           /\ IF got.tag = "raise"
              THEN /\ wPc' = "done"
                   /\ wOut' = Returned(result)
                   /\ UNCHANGED <<result, pending, failed_job_details>>
              ELSE /\ failed_job_details' = Append(failed_job_details, detail)
                   /\ pending' = Tail(pending)
                   /\ IF Tail(pending) = <<>>
                      THEN /\ result' = result @@ ("failed_jobs" :> failed_job_details')
                           /\ wPc' = "done"
                           /\ wOut' = Returned(result')
                      ELSE UNCHANGED <<result, wPc, wOut>>
    /\ UNCHANGED <<now, wArgs, start_time, checks, elapsed, final_status, pipeline,
                   statusFetches, fetchTimes, jobFetches>>
    /\ UNCHANGED exceptWait

\* one iteration of the loop over failed_jobs[:5]: the log or the placeholder
WaitLog(got) ==
    /\ wPc = "logs"
    /\ LET job == Head(pending)
           lines == IF got.tag = "raise" THEN Unavailable ELSE LastLogLines(got.value)
           detail == JobDetail(job) @@ ("last_log_lines" :> lines)
       IN  /\ logFetches' = Append(logFetches, [id |-> job.id, got |-> got])
           /\ failed_job_details' = Append(failed_job_details, detail)
           /\ pending' = Tail(pending)
           /\ IF Tail(pending) = <<>>
              THEN /\ result' = result @@ ("failed_jobs" :> failed_job_details')
                   /\ wPc' = "done"
                   /\ wOut' = Returned(result')
              ELSE UNCHANGED <<result, wPc, wOut>>
    /\ UNCHANGED <<now, wArgs, start_time, checks, elapsed, final_status, pipeline,
                   statusFetches, fetchTimes, jobFetches>>
    /\ UNCHANGED exceptWait

\* the whole of wait_for_pipeline over the given inputs and server answers
WaitNext(timeouts, intervals, includes, statusAnswers, delays, listings, logs) ==
    \/ \E t \in timeouts, c \in intervals, inc \in includes : WaitStart(17, t, c, inc)
    \/ \E resp \in statusAnswers, d \in delays : WaitCheck(resp, d)
    \/ WaitSleep
    \/ WaitResult
    \/ \E listing \in listings : WaitJobs(listing)
    \/ \E got \in logs : WaitLog(got)

(***************************************************************************)
(* CI/CD variables: get_project_variable, set_project_variable             *)
(***************************************************************************)

Keys == {"K1", "K2"}
Values == {"v1", "v2"}
Absent == "absent"

\* the answer of the server to a request on the variable key: what the
\* store gives, unless the request fails on the way (fault is a status, or
\* "net" for a network failure, or "none")
Faults == {"none", "net", "401", "500"}

FaultResponse(fault) ==
    IF fault = "net" THEN NetworkFailure
    ELSE IF fault = "401" THEN HttpResponse(401, ErrorText, NoneVal)
    ELSE HttpResponse(500, ErrorText, NoneVal)

Variable(key, value) == [key |-> key, value |-> value]

\* GET /projects/:id/variables/:key
ProbeResponse(store, key, fault) ==
    IF fault # "none" THEN FaultResponse(fault)
    ELSE IF store[key] = Absent THEN HttpResponse(404, ErrorText, NoneVal)
    ELSE HttpResponse(200, <<>>, Variable(key, store[key]))

\* PUT /projects/:id/variables/:key
PutResponse(store, key, value, fault) ==
    IF fault # "none" THEN FaultResponse(fault)
    ELSE IF store[key] = Absent THEN HttpResponse(404, ErrorText, NoneVal)
    ELSE HttpResponse(200, <<>>, Variable(key, value))

\* POST /projects/:id/variables
PostResponse(store, key, value, fault) ==
    IF fault # "none" THEN FaultResponse(fault)
    ELSE IF store[key] # Absent THEN HttpResponse(400, ErrorText, NoneVal)
    ELSE HttpResponse(201, <<>>, Variable(key, value))

\* get_project_variable: the variable, None on a 404, or a raised error
GetProjectVariable(resp) ==
    IF resp.net THEN Raised(RequestError)
    ELSE IF IsSuccess(resp.status) THEN Returned(resp.json)
    ELSE IF resp.status = 404 THEN Returned(NoneVal)
    ELSE Raised(RaiseForStatus(resp.status, resp.text))

\* create_project_variable and update_project_variable after their request
WriteOutcome(resp) ==
    IF resp.net THEN Raised(RequestError)
    ELSE IF IsSuccess(resp.status) THEN Returned(resp.json)
    ELSE Raised(RaiseForStatus(resp.status, resp.text))

\* mutant of Exists: any probe that returns is taken as a hit
ExistsAlways(found) == TRUE

\* if existing:
Exists(found) == found # NoneVal /\ DOMAIN found # {}

IdleUp ==
    /\ uPc = "idle"
    /\ uArgs = NoneVal
    /\ existing = NoneVal
    /\ uRequests = <<>>
    /\ uOut = NoneVal

\* set_project_variable up to the branch: the existence probe
SetProbe(key, value, fault) ==
    /\ uPc = "idle"
    /\ uArgs' = [key |-> key, value |-> value]
    /\ LET resp == ProbeResponse(serverVars, key, fault)
           got == GetProjectVariable(resp)
       IN  /\ uRequests' = <<[method |-> "GET", key |-> key, resp |-> resp]>>
           /\ IF got.tag = "raise"
              THEN uPc' = "raised" /\ uOut' = got /\ existing' = NoneVal
              ELSE uPc' = "write" /\ uOut' = NoneVal /\ existing' = got.value
    /\ UNCHANGED serverVars
    /\ UNCHANGED exceptUp

\* set_project_variable after the probe: the update or the create
SetWrite(fault) ==
    /\ uPc = "write"
    /\ LET key == uArgs.key
           value == uArgs.value
           update == Exists(existing)
           resp == IF update THEN PutResponse(serverVars, key, value, fault)
                   ELSE PostResponse(serverVars, key, value, fault)
           got == WriteOutcome(resp)
       IN  /\ uRequests' = Append(uRequests,
                  [method |-> IF update THEN "PUT" ELSE "POST", key |-> key, resp |-> resp])
           /\ IF got.tag = "raise"
              THEN uPc' = "raised" /\ uOut' = got /\ UNCHANGED serverVars
              ELSE /\ uPc' = "done"
                   /\ uOut' = Returned([variable |-> got.value,
                                        action |-> IF update THEN "updated" ELSE "created"])
                   /\ serverVars' = [serverVars EXCEPT ![key] = value]
    /\ UNCHANGED <<uArgs, existing>>
    /\ UNCHANGED exceptUp

\* the caller goes on to its next call
SetAgain ==
    /\ uPc \in {"done", "raised"}
    /\ uPc' = "idle"
    /\ uArgs' = NoneVal
    /\ existing' = NoneVal
    /\ uRequests' = <<>>
    /\ uOut' = NoneVal
    /\ UNCHANGED serverVars
    /\ UNCHANGED exceptUp

(***************************************************************************)
(* Constructor: __init__, _validate_configuration, _test_connectivity      *)
(***************************************************************************)

\* None where the other values are strings: no string of the model holds an
\* element of more than one character
NoneStr == <<"None">>

\* a string that is neither None nor empty
Truthy(str) == str # NoneStr /\ str # <<>>

\* mutant of Or: the fallback wins over the first operand
OrFallbackFirst(a, b) == IF Truthy(b) THEN b ELSE a

\* a or b
Or(a, b) == IF Truthy(a) THEN a ELSE b

RECURSIVE RStripSlash(_)
\* s.rstrip("/")
RStripSlash(str) ==
    IF str # <<>> /\ str[Len(str)] = "/" THEN RStripSlash(SubSeq(str, 1, Len(str) - 1)) ELSE str

HttpScheme == <<"h", "t", "t", "p", ":", "/", "/">>
HttpsScheme == <<"h", "t", "t", "p", "s", ":", "/", "/">>
DefaultUrl == <<"h", "t", "t", "p", "s", ":", "/", "/", "g", "i", "t", "l", "a", "b", ".", "c", "o", "m">>
ApiSuffix == <<"/", "a", "p", "i", "/", "v", "4">>

ConfigurationError(reason) == [kind |-> "ConfigurationError", reason |-> reason]

\* _validate_configuration: the error it raises, or NoneVal
ValidateConfiguration(token, base_url) ==
    IF ~Truthy(token) THEN ConfigurationError("token")
    ELSE IF ~(StartsWith(base_url, HttpScheme) \/ StartsWith(base_url, HttpsScheme))
    THEN ConfigurationError("url")
    ELSE NoneVal

\* mutant of RunsValidation: validate=False switches the validation off
RunsValidationIfAsked(validate, lazy) == validate /\ ~lazy

\* if not lazy: self._validate_configuration()
RunsValidation(validate, lazy) == ~lazy

\* if validate and not lazy: self._test_connectivity()
RunsConnectivity(validate, lazy) == validate /\ ~lazy

\* the headers of the httpx.Client
ClientHeaders(token) ==
    IF Truthy(token)
    THEN [h \in {"Content-Type", "PRIVATE-TOKEN"} |->
            IF h = "PRIVATE-TOKEN" THEN token
            ELSE <<"a", "p", "p", "l", "i", "c", "a", "t", "i", "o", "n", "/", "j", "s", "o", "n">>]
    ELSE [h \in {"Content-Type"} |->
            <<"a", "p", "p", "l", "i", "c", "a", "t", "i", "o", "n", "/", "j", "s", "o", "n">>]

\* mutant of TestConnectivity: every failure of the probe is reported as a
\* configuration error
TestConnectivityWrapsAll(resp) ==
    LET got == GetOutcome(resp)
    IN  IF got.tag = "return" THEN NoneVal ELSE ConfigurationError("connect")

\* _test_connectivity after get("/version"): the error it raises, or NoneVal
TestConnectivity(resp) ==
    LET got == GetOutcome(resp)
    IN  IF got.tag = "return" THEN NoneVal
        ELSE IF got.error.kind = "RequestError" THEN ConfigurationError("connect")
        ELSE got.error

IdleCtor ==
    /\ cPc = "idle"
    /\ cArgs = NoneVal
    /\ self = NoneVal
    /\ cRequests = <<>>
    /\ cOut = NoneVal

\* __init__ up to the connectivity test
Construct(token, base_url, validate, lazy) ==
    /\ cPc = "idle"
    /\ cArgs' = [token |-> token, base_url |-> base_url, validate |-> validate, lazy |-> lazy]
    /\ LET tok == Or(token, env.GITLAB_TOKEN)
           url == RStripSlash(Or(Or(Or(base_url, env.GITLAB_BASE_URL), env.GITLAB_URL),
                                 DefaultUrl))
           invalid == IF RunsValidation(validate, lazy) THEN ValidateConfiguration(tok, url)
                      ELSE NoneVal
           built == [token |-> tok, base_url |-> url, api_url |-> url \o ApiSuffix,
                     headers |-> ClientHeaders(tok)]
       IN  IF invalid # NoneVal
           THEN /\ self' = [token |-> tok, base_url |-> url]
                /\ cPc' = "raised"
                /\ cOut' = Raised(invalid)
           ELSE /\ self' = built
                /\ IF RunsConnectivity(validate, lazy)
                   THEN cPc' = "probe" /\ cOut' = NoneVal
                   ELSE cPc' = "done" /\ cOut' = Returned(built)
    /\ UNCHANGED <<env, cRequests>>
    /\ UNCHANGED exceptCtor

\* _test_connectivity: GET /version
Connect(resp) ==
    /\ cPc = "probe"
    /\ cRequests' = Append(cRequests, [endpoint |-> "/version", answer |-> resp])
    /\ LET failure == TestConnectivity(resp)
       IN  IF failure # NoneVal
           THEN cPc' = "raised" /\ cOut' = Raised(failure)
           ELSE cPc' = "done" /\ cOut' = Returned(self)
    /\ UNCHANGED <<env, cArgs, self>>
    /\ UNCHANGED exceptCtor

UrlSamples ==
    {<<"h", "t", "t", "p", "s", ":", "/", "/", "h">>,
     <<"h", "t", "t", "p", ":", "/", "/", "h">>,
     <<"h", "t", "t", "p", "s", ":", "/", "/", "h", "/">>,
     <<"h", "t", "t", "p", ":", "/", "/", "h", "/", "/">>,
     <<"f", "t", "p", ":", "/", "/", "h">>,
     <<"h">>,
     <<"h", "t", "t", "p", ":", "/", "/">>,
     <<"h", "t", "t", "p", "s", ":", "/", "/", "/">>,
     <<"h", "t", "t", "p", ":", "/", "h">>,
     <<"/">>,
     <<"h", "t", "t">>}

TokenArgs == {NoneStr, <<>>, <<"t">>}
EnvTokens == {NoneStr, <<>>, <<"e">>}
UrlArgs == UrlSamples \cup {NoneStr, <<>>}
EnvUrls == {NoneStr, <<>>, <<"h", "t", "t", "p", ":", "/", "/", "e">>, <<"e", "/">>}

VersionResponses ==
    {HttpResponse(st, ErrorText, [version |-> <<"1", "6">>]) : st \in {200, 401, 404, 500}}
    \cup {NetworkFailure}

(***************************************************************************)
(* URL encoding: _encode_project_id                                        *)
(***************************************************************************)

\* the characters urllib.parse.quote never escapes
AlwaysSafe ==
    {"A", "B", "C", "D", "E", "F", "G", "H", "I", "J", "K", "L", "M",
     "N", "O", "P", "Q", "R", "S", "T", "U", "V", "W", "X", "Y", "Z",
     "a", "b", "c", "d", "e", "f", "g", "h", "i", "j", "k", "l", "m",
     "n", "o", "p", "q", "r", "s", "t", "u", "v", "w", "x", "y", "z",
     "0", "1", "2", "3", "4", "5", "6", "7", "8", "9", "_", ".", "-", "~"}

\* the byte of an ASCII character that is not always safe
Ord(c) ==
    CASE c = " " -> 32
      [] c = "#" -> 35
      [] c = "%" -> 37
      [] c = "+" -> 43
      [] c = "/" -> 47
      [] c = ":" -> 58
      [] c = "?" -> 63
      [] c = "@" -> 64

HexDigits == <<"0", "1", "2", "3", "4", "5", "6", "7", "8", "9", "A", "B", "C", "D", "E", "F">>

\* "%{:02X}" of the character's byte
PercentEscape(c) ==
    <<"%", HexDigits[(Ord(c) \div 16) + 1], HexDigits[(Ord(c) % 16) + 1]>>

RECURSIVE Quote(_, _)
\* urllib.parse.quote(str, safe=safe)
Quote(str, safe) ==
    IF str = <<>> THEN <<>>
    ELSE (IF Head(str) \in AlwaysSafe \cup safe THEN <<Head(str)>>
          ELSE PercentEscape(Head(str)))
         \o Quote(Tail(str), safe)

\* mutant of EncodeProjectId: quote with its default safe="/"
EncodeProjectIdSlashSafe(id) == Quote(id, {"/"})

\* _encode_project_id: quote(project_id, safe="")
EncodeProjectId(id) == Quote(id, {})

IdleEnc == encoded_id = NoneStr

\* one call of _encode_project_id
Encode ==
    /\ project_id # NoneStr
    /\ encoded_id = NoneStr
    /\ encoded_id' = EncodeProjectId(project_id)
    /\ UNCHANGED project_id
    /\ UNCHANGED exceptEnc

\* the characters of the project identifiers: a digit, a letter, the
\* path separator, an unreserved mark and reserved characters
IdChars == {"1", "g", "/", ".", "%", " ", ":"}

\* the longest project identifier
MaxIdLen == 5

(***************************************************************************)
(* File upload: upload_file                                                *)
(***************************************************************************)

\* the base64 alphabet, in the order of the sextets 0..63
B64Alphabet ==
    <<"A", "B", "C", "D", "E", "F", "G", "H", "I", "J", "K", "L", "M",
      "N", "O", "P", "Q", "R", "S", "T", "U", "V", "W", "X", "Y", "Z",
      "a", "b", "c", "d", "e", "f", "g", "h", "i", "j", "k", "l", "m",
      "n", "o", "p", "q", "r", "s", "t", "u", "v", "w", "x", "y", "z",
      "0", "1", "2", "3", "4", "5", "6", "7", "8", "9", "+", "/">>

B64Pad == "="

IsB64Digit(c) == \E i \in 1..Len(B64Alphabet) : B64Alphabet[i] = c

Sextet(c) == (CHOOSE i \in 1..Len(B64Alphabet) : B64Alphabet[i] = c) - 1

\* the base64 digits of a string
DataChars(str) == SelectSeq(str, IsB64Digit)

\* the number of pad characters the string ends with
RECURSIVE TrailingPads(_)
TrailingPads(str) ==
    IF str # <<>> /\ str[Len(str)] = B64Pad
    THEN 1 + TrailingPads(SubSeq(str, 1, Len(str) - 1))
    ELSE 0

\* mutant of B64Valid: validate=False, characters outside the alphabet are
\* discarded and only the number of digits counts
B64ValidLenient(str) == Len(DataChars(str)) % 4 # 1

\* base64.b64decode(str, validate=True) raises no binascii.Error: digits
\* only, then the padding that completes the last group of four
B64Valid(str) ==
    LET pads == TrailingPads(str)
        digits == Len(str) - pads
    IN  /\ \A i \in 1..digits : IsB64Digit(str[i])
        /\ \/ digits % 4 = 0 /\ pads = 0
           \/ digits % 4 = 2 /\ pads = 2
           \/ digits % 4 = 3 /\ pads = 1

RECURSIVE B64Bytes(_)
\* the bytes that a sequence of base64 digits encodes
B64Bytes(digits) ==
    IF Len(digits) < 2 THEN <<>>
    ELSE LET s(i) == IF i <= Len(digits) THEN Sextet(digits[i]) ELSE 0
             n == s(1) * 262144 + s(2) * 4096 + s(3) * 64 + s(4)
             group == <<n \div 65536, (n \div 256) % 256, n % 256>>
         IN  IF Len(digits) >= 4
             THEN group \o B64Bytes(SubSeq(digits, 5, Len(digits)))
             ELSE SubSeq(group, 1, Len(digits) - 1)

\* base64.b64decode of a valid string
B64Decode(str) == B64Bytes(DataChars(str))

ValueError == [kind |-> "ValueError"]
FileNotFoundError == [kind |-> "FileNotFoundError"]

\* the exception classes derived from GitLabError
GitLabErrorKinds ==
    {"GitLabError", "AuthenticationError", "NotFoundError", "APIError", "ConfigurationError"}

\* the local files: path -> content
FileSystem == <<"/", "d", "/", "a">> :> <<137, 80>>

RECURSIVE Basename(_)
\* os.path.basename(path)
Basename(path) ==
    IF path = <<>> \/ path[Len(path)] = "/" THEN <<>>
    ELSE Basename(SubSeq(path, 1, Len(path) - 1)) \o <<path[Len(path)]>>

\* the failure of the source stage of upload_file, or NoneVal
SourceFailure(src) ==
    IF "path" \in DOMAIN src
    THEN IF src.path \in DOMAIN FileSystem THEN NoneVal ELSE FileNotFoundError
    ELSE IF B64Valid(src.base64) THEN NoneVal ELSE ValueError

\* files = {"file": (filename, file_content)}
FilesOf(src) ==
    IF "path" \in DOMAIN src
    THEN [filename |-> Basename(src.path), file_content |-> FileSystem[src.path]]
    ELSE [filename |-> src.filename, file_content |-> B64Decode(src.base64)]

\* what upload_file does with the response of its POST
UploadOutcome(resp) ==
    IF resp.net THEN Raised(RequestError)
    ELSE IF IsSuccess(resp.status) THEN Returned(resp.json)
    ELSE Raised(RaiseForStatus(resp.status, resp.text))

\* str(self.token): the text "None" when the token is None
Str(token) == IF token = NoneStr THEN <<"N", "o", "n", "e">> ELSE token

\* headers={"PRIVATE-TOKEN": str(self.token)}
UploadHeaders(token) == [h \in {"PRIVATE-TOKEN"} |-> Str(token)]

IdleFile ==
    /\ fPc = "idle"
    /\ source = NoneVal
    /\ fRequests = <<>>
    /\ fOut = NoneVal

\* upload_file up to the POST: the file is read or the payload decoded
UploadStart(src) ==
    /\ fPc = "idle"
    /\ cPc = "done"
    /\ source' = src
    /\ LET failure == SourceFailure(src)
       IN  IF failure # NoneVal
           THEN fPc' = "raised" /\ fOut' = Raised(failure)
           ELSE fPc' = "post" /\ fOut' = NoneVal
    /\ UNCHANGED fRequests
    /\ UNCHANGED exceptFile

\* upload_file: httpx.post of the file and the handling of its response
UploadPost(resp) ==
    /\ fPc = "post"
    /\ fRequests' = Append(fRequests, [method |-> "POST", endpoint |-> "/uploads",
                                        files |-> FilesOf(source),
                                        headers |-> UploadHeaders(self.token),
                                        answer |-> resp])
    /\ fOut' = UploadOutcome(resp)
    /\ fPc' = IF fOut'.tag = "raise" THEN "raised" ELSE "done"
    /\ UNCHANGED source
    /\ UNCHANGED exceptFile

\* the characters of the inline payloads: digits, the pad and a character
\* outside the alphabet
PayloadChars == {"A", "Q", "/", B64Pad, "!"}

\* the longest inline payload
MaxPayloadLen == 4

Payloads == UNION {[1..n -> PayloadChars] : n \in 0..MaxPayloadLen}

\* the source arguments: inline payloads, an existing and a missing path,
\* and a mapping that has both keys
FileSources ==
    {[base64 |-> b, filename |-> <<"f">>] : b \in Payloads}
    \cup {[path |-> <<"/", "d", "/", "a">>], [path |-> <<"/", "n">>],
          [path |-> <<"/", "d", "/", "a">>, base64 |-> <<"!">>, filename |-> <<"f">>]}

UploadResponses ==
    {HttpResponse(st, ErrorText, [url |-> <<"/", "u">>]) : st \in {201, 401, 404, 500}}
    \cup {NetworkFailure}

(***************************************************************************)
(* Variable listing: list_project_variables, _sanitize_variable            *)
(***************************************************************************)

\* None among the values of a variable's fields
NoneField == <<"None">>

\* the field sets of the variable objects the server returns: every
\* documented field, key and value alone, no value, and an unknown field
VariableShapes ==
    <<{"key", "value", "variable_type", "protected", "masked", "raw",
       "environment_scope", "description"},
      {"key", "value"},
      {"key", "variable_type", "protected", "masked"},
      {"key", "value", "hidden"}>>

\* the variable object that the listed item stands for: field f of item
\* <<p, i>> holds <<f, p, i>>
ServerVariable(item) ==
    LET shape == VariableShapes[((2 * (item[1] - 1) + (item[2] - 1)) % Len(VariableShapes)) + 1]
    IN  [f \in shape |-> <<f, item[1], item[2]>>]

\* var.get(field)
DictGet(var, field) == IF field \in DOMAIN var THEN var[field] ELSE NoneField

SanitizedFields ==
    {"key", "variable_type", "protected", "masked", "raw", "environment_scope", "description"}

\* mutant of SanitizeVariable: the variable is passed through
SanitizeVariableRaw(var) == var

\* _sanitize_variable: the metadata fields, without the value
SanitizeVariable(var) == [f \in SanitizedFields |-> DictGet(var, f)]

IdleList == lOut = NoneVal

\* list_project_variables after get_paginated: the sanitised variables, or
\* the error get_paginated raised
ListVariables ==
    /\ lOut = NoneVal
    /\ pPc \in {"done", "raised"}
    /\ lOut' = IF pOut.tag = "return"
               THEN Returned([i \in 1..Len(pOut.value) |->
                                SanitizeVariable(ServerVariable(pOut.value[i]))])
               ELSE pOut
    /\ UNCHANGED varsPag
    /\ UNCHANGED exceptList

(***************************************************************************)
(* Endpoint wrappers that issue one request through self.client            *)
(***************************************************************************)

\* the wrappers of the model, each with the method of its one request
Methods ==
    [get_job_log |-> "GET", retry_job |-> "POST", create_mr_note |-> "POST",
     update_mr |-> "PUT", create_issue |-> "POST", update_release |-> "PUT",
     merge_mr |-> "PUT"]

Operations == DOMAIN Methods

\* str(e) of an httpx.HTTPStatusError: a text that names the status
StrOfStatusError(status) == <<"H", "T", "T", "P", " ">> \o Digits(status)

\* what a wrapper that hands its HTTPStatusError to _raise_for_status does
\* with the response; get_job_log returns the text, the others the decoded
\* body
WrapperOutcome(op, resp) ==
    IF resp.net THEN Raised(RequestError)
    ELSE IF IsSuccess(resp.status)
         THEN Returned(IF op = "get_job_log" THEN resp.text ELSE resp.json)
    ELSE Raised(RaiseForStatus(resp.status, resp.text))

\* merge_mr: msg = error_json.get("message", str(e)), or str(e) when the
\* text is not a JSON object
MergeMessage(resp) ==
    IF "message" \in DOMAIN resp.json THEN resp.json.message
    ELSE StrOfStatusError(resp.status)

\* what merge_mr does with the response of its PUT
MergeOutcome(resp) ==
    IF resp.net THEN Raised(RequestError)
    ELSE IF IsSuccess(resp.status) THEN Returned(resp.json)
    ELSE Raised(APIError(MergeMessage(resp), resp.status, Take(resp.text, BodyLimit)))

IdleOps ==
    /\ oPc = "idle"
    /\ oCall = NoneVal
    /\ oRequests = <<>>
    /\ oOut = NoneVal

\* one call of a single-request wrapper on a constructed client
Invoke(op, resp) ==
    /\ oPc = "idle"
    /\ cPc = "done"
    /\ oCall' = [op |-> op]
    /\ oRequests' = Append(oRequests, [op |-> op, method |-> Methods[op],
                                        headers |-> self.headers, answer |-> resp])
    /\ oOut' = IF op = "merge_mr" THEN MergeOutcome(resp) ELSE WrapperOutcome(op, resp)
    /\ oPc' = IF oOut'.tag = "raise" THEN "raised" ELSE "done"
    /\ UNCHANGED exceptOps

\* the keys create_mr_discussion copies from the position when present
CopiedKeys == {"new_line", "old_line", "base_sha", "head_sha", "start_sha"}

\* if position:
PositionGiven(position) == position # NoneVal /\ DOMAIN position # {}

\* gitlab_position
GitlabPosition(position) ==
    [k \in {"position_type", "new_path", "old_path"} \cup (CopiedKeys \cap DOMAIN position) |->
        IF k = "position_type" THEN <<"t", "e", "x", "t">>
        ELSE IF k \in {"new_path", "old_path"} THEN position.file_path
        ELSE position[k]]

\* data, the JSON body of the request
DiscussionData(body, position) ==
    IF PositionGiven(position)
    THEN [body |-> body, position |-> GitlabPosition(position)]
    ELSE [body |-> body]

\* one call of create_mr_discussion on a constructed client
CreateMrDiscussion(body, position, resp) ==
    /\ oPc = "idle"
    /\ cPc = "done"
    /\ oCall' = [op |-> "create_mr_discussion", body |-> body, position |-> position]
    /\ oRequests' = Append(oRequests, [op |-> "create_mr_discussion", method |-> "POST",
                                        json |-> DiscussionData(body, position),
                                        headers |-> self.headers, answer |-> resp])
    /\ oOut' = WrapperOutcome("create_mr_discussion", resp)
    /\ oPc' = IF oOut'.tag = "raise" THEN "raised" ELSE "done"
    /\ UNCHANGED exceptOps

\* the bodies of the error responses: an object with a message, an object
\* without one, and a text that is not JSON
ErrorBodies == {[message |-> <<"n", "o">>], [error |-> <<"x">>], NoneVal}

OpResponses ==
    {HttpResponse(st, ErrorText, [id |-> 7]) : st \in {200, 201}}
    \cup {HttpResponse(st, ErrorText, js) :
            st \in {400, 401, 403, 404, 405, 406, 409, 500}, js \in ErrorBodies}
    \cup {NetworkFailure}

\* the optional fields of DiffPosition
OptionalFields ==
    {"new_line", "old_line", "new_line_content", "old_line_content",
     "base_sha", "head_sha", "start_sha"}

FieldValues ==
    [file_path |-> <<"a", ".", "p", "y">>, new_line |-> 3, old_line |-> 2,
     new_line_content |-> <<"+", "x">>, old_line_content |-> <<"-", "y">>,
     base_sha |-> <<"b">>, head_sha |-> <<"h">>, start_sha |-> <<"s">>]

\* the position arguments: none, and file_path with any of the optional
\* fields
Positions ==
    {NoneVal} \cup {[k \in {"file_path"} \cup given |-> FieldValues[k]] :
                      given \in SUBSET OptionalFields}

RECURSIVE SeqsUpTo(_, _)
\* the sequences over S of length at most n
SeqsUpTo(S, n) ==
    IF n = 0 THEN {<<>>}
    ELSE LET shorter == SeqsUpTo(S, n - 1)
         IN  shorter \cup {Append(q, x) : q \in {r \in shorter : Len(r) = n - 1}, x \in S}

NoVariables == [k \in Keys |-> Absent]
NoEnv == [GITLAB_TOKEN |-> NoneStr, GITLAB_BASE_URL |-> NoneStr, GITLAB_URL |-> NoneStr]

\* nothing has been called
Idle ==
    /\ IdleGet /\ IdlePag /\ IdleWait /\ IdleUp /\ IdleCtor /\ IdleEnc /\ IdleFile /\ IdleList
    /\ IdleOps

InitGet ==
    /\ Idle
    /\ serverPages = <<>>
    /\ serverVars = NoVariables
    /\ env = NoEnv
    /\ project_id = NoneStr

NextGet == \E resp \in GetResponses : Get(resp)

InitPag ==
    /\ Idle
    /\ serverPages \in SeqsUpTo(ServerPageKinds, MaxServerPages)
    /\ serverVars = NoVariables
    /\ env = NoEnv
    /\ project_id = NoneStr

NextPag ==
    \/ \E size \in PerPageArgs, ceiling \in MaxPagesArgs : PagStart(size, ceiling)
    \/ PagFetch
    \/ PagReturn

SpecPag == InitPag /\ [][NextPag]_vars

SpecGet == InitGet /\ [][NextGet]_vars

(***************************************************************************)
(* Specifications of the poller                                            *)
(***************************************************************************)

\* the largest timeout_seconds argument
MaxTimeout == 2

\* the largest check_interval argument
MaxInterval == 1

\* the longest a status fetch takes on the clock
MaxFetchTime == 1

\* the longest job listing
MaxJobs == 7

\* the longest job log, in lines
MaxLogLines == 12

Snapshot(status, web_url) == [status |-> status, web_url |-> web_url]

PipelineUrls == {<<"/", "p", "/", "1">>, <<"/", "p", "/", "2">>}

\* the answers to GET /projects/:id/pipelines/:pipeline_id
StatusAnswers ==
    {HttpResponse(200, <<>>, Snapshot(st, u)) :
        st \in {"running"} \cup TerminalStatuses, u \in PipelineUrls}
    \cup {HttpResponse(404, ErrorText, NoneVal), HttpResponse(500, ErrorText, NoneVal),
          NetworkFailure}

\* the answers of a pipeline that runs, then fails or succeeds
EndingAnswers ==
    {HttpResponse(200, <<>>, Snapshot(st, <<"/", "p", "/", "1">>)) :
        st \in {"running", "failed", "success"}}

ListingFailure == Raised(RaiseForStatus(500, ErrorText))

\* get_paginated does not catch httpx.RequestError
ListingUnreachable == Raised(RequestError)

\* the outcomes of get_pipeline_jobs with at most n jobs
ListingsUpTo(n) ==
    {Returned(Listing(q)) : q \in SeqsUpTo({"success", "failed"}, n)}
    \cup {ListingFailure, ListingUnreachable}

LogFailure == Raised(RaiseForStatus(404, ErrorText))

\* a log of n lines, line i being the digits of i, but for line b (if any)
\* which is the given blank line; with a final newline or without
LogOf(n, b, blank, final) ==
    JoinLines([i \in 1..n |-> IF i = b THEN blank ELSE Digits(i)]) \o final

\* get_job_log does not catch httpx.RequestError
LogUnreachable == Raised(RequestError)

SimpleLogs == {Returned(LogOf(2, 0, <<>>, <<NL>>)), LogFailure, LogUnreachable}

RichLogs ==
    {Returned(LogOf(n, b, blank, final)) :
        n \in 0..MaxLogLines, b \in 0..MaxLogLines, blank \in {<<>>, <<" ">>},
        final \in {<<>>, <<NL>>}}
    \cup {LogFailure}

NextPoll ==
    WaitNext((-1)..MaxTimeout, 0..MaxInterval, BOOLEAN, StatusAnswers, 0..MaxFetchTime,
             ListingsUpTo(1), SimpleLogs)

NextEnrich ==
    WaitNext({MaxTimeout}, {MaxInterval}, BOOLEAN, EndingAnswers, {MaxFetchTime},
             ListingsUpTo(MaxJobs), SimpleLogs)

NextLogs ==
    WaitNext({MaxTimeout}, {MaxInterval}, {TRUE}, EndingAnswers, {MaxFetchTime},
             ListingsUpTo(1), RichLogs)

InitWait == InitGet

\* the poller against any pipeline and clock, with short job listings
SpecPoll == InitWait /\ [][NextPoll]_vars

\* the poller against a pipeline that has ended, with long job listings
SpecEnrich == InitWait /\ [][NextEnrich]_vars

\* the poller against a failed pipeline, with long job logs
SpecLogs == InitWait /\ [][NextLogs]_vars

\* the status answers of a server whose every status fetch succeeds
LiveAnswers == {a \in StatusAnswers : ~a.net /\ a.status = 200}

\* the timeouts that a clock advancing by at least 1 per iteration passes
\* within MaxChecks iterations
LiveTimeouts == (-1)..(MaxChecks - 2)

\* the times a status fetch may take when the clock has to advance between
\* two readings of the elapsed time: the fetch and the sleep of an iteration
\* take at least 1 together
LiveDelays ==
    {d \in 0..MaxFetchTime : wArgs # NoneVal => d + wArgs.check_interval >= 1}

\* a step of wait_for_pipeline after its entry, with status fetches that
\* succeed and a clock that advances between two readings of the elapsed
\* time: the fetch and the sleep of an iteration take at least 1 together
PollStep ==
    \/ \E resp \in LiveAnswers, d \in LiveDelays : WaitCheck(resp, d)
    \/ WaitSleep
    \/ WaitResult
    \/ \E listing \in ListingsUpTo(1) : WaitJobs(listing)
    \/ \E got \in SimpleLogs : WaitLog(got)

NextLive ==
    \/ \E t \in LiveTimeouts, c \in 0..MaxInterval, inc \in BOOLEAN : WaitStart(17, t, c, inc)
    \/ PollStep

\* the poller as a sequential program: once called it takes its next step
SpecLive == InitWait /\ [][NextLive]_vars /\ WF_vars(PollStep)

InitUp ==
    /\ Idle
    /\ serverPages = <<>>
    /\ serverVars \in [Keys -> Values \cup {Absent}]
    /\ env = NoEnv
    /\ project_id = NoneStr

NextUp ==
    \/ \E key \in Keys, value \in Values, fault \in Faults : SetProbe(key, value, fault)
    \/ \E fault \in Faults : SetWrite(fault)
    \/ SetAgain

\* calls of set_project_variable, one after the other
SpecUp == InitUp /\ [][NextUp]_vars

InitCtor ==
    /\ Idle
    /\ serverPages = <<>>
    /\ serverVars = NoVariables
    /\ env \in [GITLAB_TOKEN : EnvTokens, GITLAB_BASE_URL : EnvUrls, GITLAB_URL : EnvUrls]
    /\ project_id = NoneStr

NextCtor ==
    \/ \E token \in TokenArgs, base_url \in UrlArgs, validate \in BOOLEAN, lazy \in BOOLEAN :
          Construct(token, base_url, validate, lazy)
    \/ \E resp \in VersionResponses : Connect(resp)

\* one construction of the client in any environment
SpecCtor == InitCtor /\ [][NextCtor]_vars

InitList == InitPag

NextList == NextPag \/ ListVariables

\* one call of list_project_variables against any server
SpecList == InitList /\ [][NextList]_vars

\* the constructions that the wrappers and the upload are called after: a
\* token argument or none, lazy or not, no probe
ConstructAny ==
    \E token \in TokenArgs, lazy \in BOOLEAN : Construct(token, NoneStr, FALSE, lazy)

InitFile == InitGet

NextFile ==
    \/ ConstructAny
    \/ \E src \in FileSources : UploadStart(src)
    \/ \E resp \in UploadResponses : UploadPost(resp)

\* one construction of the client and one call of upload_file with any
\* source
SpecFile == InitFile /\ [][NextFile]_vars

InitOps == InitGet

NextOps ==
    \/ ConstructAny
    \/ \E op \in Operations, resp \in OpResponses : Invoke(op, resp)
    \/ \E position \in Positions, resp \in OpResponses :
          CreateMrDiscussion(<<"h", "i">>, position, resp)

\* one construction of the client and one call of an endpoint wrapper
SpecOps == InitOps /\ [][NextOps]_vars

\* the identifiers of up to MaxIdLen characters
ProjectIds == UNION {[1..n -> IdChars] : n \in 0..MaxIdLen}

InitEnc ==
    /\ Idle
    /\ serverPages = <<>>
    /\ serverVars = NoVariables
    /\ env = NoEnv
    /\ project_id \in ProjectIds

NextEnc == Encode

\* one call of _encode_project_id with any identifier
SpecEnc == InitEnc /\ [][NextEnc]_vars

(***************************************************************************)
(* C1, C2                                                                  *)
(***************************************************************************)

RECURSIVE ConcatPages(_, _)
\* the items of the server's pages 1..n, in page order
ConcatPages(pages, n) ==
    IF n = 0 THEN <<>> ELSE ConcatPages(pages, n - 1) \o PageItems(n, pages[n].count)

\* page i of the server is a non-empty listing
NonEmptyPage(i) == serverPages[i].kind = "ok" /\ serverPages[i].count > 0

\* the server holds exactly n non-empty pages, with a non-empty x-next-page
\* header on every page but the last
HoldsPages(n) ==
    /\ Len(serverPages) = n
    /\ \A i \in 1..n :
          /\ NonEmptyPage(i)
          /\ (serverPages[i].next = "present") <=> (i < n)

\* the pages asked for, in the order of the requests
RequestedPages == [i \in 1..Len(pRequests) |-> pRequests[i].page]

\* C1: over a server holding N non-empty pages (1 <= N <= max_pages) with
\* a next-page header on all but the last, get_paginated returns the
\* concatenation of the N pages in page order and issues exactly N GETs.
C1_AllPagesInOrder ==
    LET n == Len(serverPages)
    IN  (n >= 1 /\ n <= max_pages /\ HoldsPages(n) /\ pPc # "idle") =>
            /\ pPc # "raised"
            /\ Len(pRequests) <= n
            /\ pPc = "done" =>
                  /\ pOut = Returned(ConcatPages(serverPages, n))
                  /\ Len(pRequests) = n
                  /\ RequestedPages = [i \in 1..n |-> i]

C1_Witness ==
    /\ pPc = "done"
    /\ Len(serverPages) = 3
    /\ HoldsPages(3)
    /\ max_pages >= 3
    /\ Len(pOut.value) >= 4
    /\ Len(pRequests) = 3

\* the first k pages of the server are non-empty and all carry a next page
EndlessUpTo(k) ==
    /\ Len(serverPages) >= k
    /\ \A i \in 1..k : NonEmptyPage(i) /\ serverPages[i].next = "present"

\* C2: with max_pages = K >= 1 over a server whose every page is non-empty
\* and carries a next-page header, exactly K GETs are issued, the result
\* is the items of the first K pages, and the warning is logged.
C2_CeilingStops ==
    (pPc # "idle" /\ max_pages >= 1 /\ EndlessUpTo(max_pages)) =>
        /\ pPc # "raised"
        /\ Len(pRequests) <= max_pages
        /\ pPc = "done" =>
              /\ Len(pRequests) = max_pages
              /\ RequestedPages = [i \in 1..max_pages |-> i]
              /\ pOut = Returned(ConcatPages(serverPages, max_pages))
              /\ pWarned

C2_Witness ==
    /\ pPc = "done"
    /\ max_pages = 2
    /\ Len(serverPages) > max_pages
    /\ EndlessUpTo(Len(serverPages))
    /\ Len(pRequests) = 2
    /\ pWarned

(***************************************************************************)
(* C3, C4                                                                  *)
(***************************************************************************)

GetFailed == gPc = "done" /\ ~gResp.net /\ ~IsSuccess(gResp.status)

\* C3: every HTTP failure response handed to the classifier through get()
\* raises exactly one typed error: 401 an AuthenticationError, 404 a
\* NotFoundError with status_code 404, any other non-2xx status s an
\* APIError with status_code s.
C3_Classified ==
    GetFailed =>
        /\ gOut.tag = "raise"
        /\ gRequests = 1
        /\ gOut.error.kind \in {"AuthenticationError", "NotFoundError", "APIError"}
        /\ (gOut.error.kind = "AuthenticationError") <=> (gResp.status = 401)
        /\ (gOut.error.kind = "NotFoundError") <=> (gResp.status = 404)
        /\ gOut.error.kind = "NotFoundError" => gOut.error.status_code = 404
        /\ gOut.error.kind = "APIError" => gOut.error.status_code = gResp.status

C3_Witness ==
    /\ GetFailed
    /\ gResp.status = 404
    /\ gOut.tag = "raise"
    /\ gOut.error.kind = "NotFoundError"

\* the prefix the message of a typed error puts before the body
MessagePrefix(error) ==
    IF error.kind = "AuthenticationError" THEN AuthPrefix
    ELSE IF error.kind = "NotFoundError" THEN NotFoundPrefix
    ELSE ApiPrefix \o Digits(error.status_code) \o ApiSep

\* the body a typed error carries: what follows the prefix of its message
CarriedBody(error) ==
    SubSeq(error.message, Len(MessagePrefix(error)) + 1, Len(error.message))

\* C4: every typed error produced from an HTTP failure carries the first
\* 500 characters of the response text (the empty string for an empty
\* text), never more than 500 characters: in its message for all three
\* kinds, and in response_body too for an APIError.
C4_BodyTruncated ==
    GetFailed =>
        LET error == gOut.error
            expected == SubSeq(gResp.text, 1,
                               IF Len(gResp.text) < 500 THEN Len(gResp.text) ELSE 500)
        IN  /\ StartsWith(error.message, MessagePrefix(error))
            /\ CarriedBody(error) = expected
            /\ Len(CarriedBody(error)) <= 500
            /\ error.kind = "APIError" => error.response_body = expected

C4_Witness ==
    /\ GetFailed
    /\ gResp.status = 401
    /\ Len(gResp.text) > 500
    /\ Len(CarriedBody(gOut.error)) = 500

(***************************************************************************)
(* C5 .. C8                                                                *)
(***************************************************************************)

\* the k-th status fetch succeeded and reported the given kind of status
FetchedStatus(k) == statusFetches[k].json.status

FetchOk(k) == ~statusFetches[k].net /\ statusFetches[k].status = 200

\* the status first becomes terminal on the k-th status fetch
FirstTerminalAt(k) ==
    /\ k \in 1..Len(statusFetches)
    /\ \A i \in 1..k : FetchOk(i)
    /\ \A i \in 1..(k - 1) :
          FetchedStatus(i) \notin {"success", "failed", "canceled", "skipped"}
    /\ FetchedStatus(k) \in {"success", "failed", "canceled", "skipped"}

\* C5: when the status first becomes terminal on the k-th status fetch, the
\* result has checks_performed = k and that status as final_status, exactly
\* k status fetches were issued, and unless the status is "failed" the
\* result has no failed_jobs and no job log is fetched.
C5_TerminalOnKth ==
    \A k \in 1..Len(statusFetches) :
        FirstTerminalAt(k) =>
            /\ Len(statusFetches) = k
            /\ wPc \in {"post", "jobs", "logs", "done"}
            /\ FetchedStatus(k) # "failed" => logFetches = <<>>
            /\ wPc = "done" =>
                  /\ wOut.tag = "return"
                  /\ wOut.value.checks_performed = k
                  /\ wOut.value.final_status = FetchedStatus(k)
                  /\ FetchedStatus(k) # "failed" => "failed_jobs" \notin DOMAIN wOut.value

C5_Witness ==
    /\ wPc = "done"
    /\ FirstTerminalAt(3)
    /\ FetchedStatus(3) = "success"
    /\ wOut.value.checks_performed = 3
    /\ "job_summary" \in DOMAIN wOut.value
    /\ wArgs.include_failed_logs

\* the log fetch that detail record i of the poll was built from
LogFetchOf(i) == logFetches[i]

\* the lines of a log that are not blank
NonBlankLinesOf(log) ==
    SelectSeq(SplitLines(log), LAMBDA line : \E j \in 1..Len(line) : line[j] \notin Whitespace)

\* C6: for every failed job whose log could be fetched, last_log_lines
\* holds at most 10 lines, and they are the last 10 non-blank lines of the
\* log: no blank line is counted among them or appears in them.
C6_LastNonBlankLines ==
    \A i \in 1..Len(failed_job_details) :
        LogFetchOf(i).got.tag = "return" =>
            LET kept == failed_job_details[i].last_log_lines
                nonblank == NonBlankLinesOf(LogFetchOf(i).got.value)
                n == Len(nonblank)
            IN  /\ Len(SplitLines(kept)) <= 10
                /\ kept = JoinLines(SubSeq(nonblank, IF n > 10 THEN n - 9 ELSE 1, n))

\* the part of C6 the code keeps: at most 10 lines
C6_AtMostTenLines ==
    \A i \in 1..Len(failed_job_details) :
        LogFetchOf(i).got.tag = "return" =>
            Len(SplitLines(failed_job_details[i].last_log_lines)) <= 10

\* the jobs of the listing the poll fetched
ListedJobs == jobFetches[1].value

\* the positions of the failed jobs in the listing, in listing order
FailedPositions(jobs) == SelectSeq([i \in 1..Len(jobs) |-> i], LAMBDA i : jobs[i].status = "failed")

\* C7: after a poll ending in "failed" with include_failed_logs set and a
\* listing of F failed jobs, failed_jobs has min(F, 5) records, those of the
\* first min(F, 5) failed jobs in listing order, and at most 5 logs were
\* fetched.
C7_FirstFiveFailed ==
    /\ Len(logFetches) <= 5
    /\ (/\ wPc = "done"
        /\ final_status = "failed"
        /\ wArgs.include_failed_logs
        /\ jobFetches # <<>>
        /\ jobFetches[1].tag = "return") =>
            LET jobs == ListedJobs
                pos == FailedPositions(jobs)
                m == IF Len(pos) < 5 THEN Len(pos) ELSE 5
            IN  /\ "failed_jobs" \in DOMAIN wOut.value
                /\ Len(wOut.value.failed_jobs) = m
                /\ \A i \in 1..m :
                      /\ wOut.value.failed_jobs[i].id = jobs[pos[i]].id
                      /\ wOut.value.failed_jobs[i].name = jobs[pos[i]].name
                      /\ logFetches[i].id = jobs[pos[i]].id
                /\ Len(logFetches) = m

C7_Witness ==
    /\ wPc = "done"
    /\ final_status = "failed"
    /\ wArgs.include_failed_logs
    /\ jobFetches # <<>>
    /\ jobFetches[1].tag = "return"
    /\ Len(FailedPositions(ListedJobs)) > 5
    /\ ListedJobs[1].status = "success"
    /\ Len(wOut.value.failed_jobs) = 5
    /\ Len(logFetches) = 5

\* no status fetch so far reported a terminal status, and none failed
NeverTerminal ==
    /\ statusFetches # <<>>
    /\ \A i \in 1..Len(statusFetches) :
          /\ FetchOk(i)
          /\ FetchedStatus(i) \notin {"success", "failed", "canceled", "skipped"}

\* C8: a poll of a pipeline that never reports a terminal status within the
\* timeout returns normally with final_status "timeout" and the web_url of
\* the last fetched snapshot, and issues no job list or job log request.
C8_TimeoutIsAResult ==
    NeverTerminal =>
        /\ wPc # "raised"
        /\ jobFetches = <<>>
        /\ logFetches = <<>>
        /\ wPc \in {"post", "done"} =>
              /\ final_status = "timeout"
              /\ elapsed > wArgs.timeout_seconds
        /\ wPc = "done" =>
              /\ wOut.tag = "return"
              /\ wOut.value.final_status = "timeout"
              /\ wOut.value.pipeline_url = statusFetches[Len(statusFetches)].json.web_url
              /\ "job_summary" \notin DOMAIN wOut.value
              /\ "failed_jobs" \notin DOMAIN wOut.value

C8_Witness ==
    /\ wPc = "done"
    /\ NeverTerminal
    /\ Len(statusFetches) = 2
    /\ statusFetches[1].json.web_url # statusFetches[2].json.web_url
    /\ wOut.value.final_status = "timeout"
    /\ wOut.value.pipeline_url = statusFetches[2].json.web_url

(***************************************************************************)
(* C9, C10                                                                 *)
(***************************************************************************)

\* the requests of the current set_project_variable call with the method
Issued(method) == {i \in 1..Len(uRequests) : uRequests[i].method = method}

\* the existence probe of the current call was answered with the status
ProbeAnswered(status) ==
    /\ uRequests # <<>>
    /\ uRequests[1].method = "GET"
    /\ ~uRequests[1].resp.net
    /\ uRequests[1].resp.status = status

\* the call is over: it returned, or its update or create raised
WriteIssued == Len(uRequests) = 2 /\ uPc \in {"done", "raised"}

\* C9: set_project_variable issues exactly one update and no create, with
\* action "updated", when the probe finds the variable; exactly one create
\* and no update, with action "created", when the probe answers 404; and
\* never both a create and an update.
C9_UpdateOrCreate ==
    /\ Cardinality(Issued("PUT")) + Cardinality(Issued("POST")) <= 1
    /\ Cardinality(Issued("GET")) <= 1
    /\ uPc = "write" => ProbeAnswered(200) \/ ProbeAnswered(404)
    /\ (WriteIssued /\ ProbeAnswered(200)) =>
          /\ Cardinality(Issued("PUT")) = 1
          /\ Issued("POST") = {}
          /\ uRequests[2].key = uArgs.key
          /\ uPc = "done" => uOut.value.action = "updated"
    /\ (WriteIssued /\ ProbeAnswered(404)) =>
          /\ Cardinality(Issued("POST")) = 1
          /\ Issued("PUT") = {}
          /\ uRequests[2].key = uArgs.key
          /\ uPc = "done" => uOut.value.action = "created"
    /\ uPc = "done" => WriteIssued

C9_Witness ==
    /\ uPc = "done"
    /\ ProbeAnswered(404)
    /\ Issued("POST") = {2}
    /\ uOut.value.action = "created"
    /\ serverVars[uArgs.key] = uArgs.value

\* neither the argument nor the environment gives a token
NoTokenAvailable ==
    /\ cArgs.token \in {NoneStr, <<>>}
    /\ env.GITLAB_TOKEN \in {NoneStr, <<>>}

\* the resolved base URL has no http:// or https:// scheme
NoHttpScheme ==
    LET url == self.base_url
    IN  /\ ~(Len(url) >= 7 /\ SubSeq(url, 1, 7) = <<"h", "t", "t", "p", ":", "/", "/">>)
        /\ ~(Len(url) >= 8 /\ SubSeq(url, 1, 8) = <<"h", "t", "t", "p", "s", ":", "/", "/">>)

\* C10: a construction with lazy = False, whatever validate is, fails with
\* ConfigurationError when no token is available or the resolved base URL
\* has no http(s) scheme: no request is issued and no client is produced.
C10_StartupValidation ==
    (cPc # "idle" /\ ~cArgs.lazy /\ (NoTokenAvailable \/ NoHttpScheme)) =>
        /\ cPc = "raised"
        /\ cOut.tag = "raise"
        /\ cOut.error.kind = "ConfigurationError"
        /\ cRequests = <<>>

C10_Witness ==
    /\ cPc = "raised"
    /\ ~cArgs.lazy
    /\ ~cArgs.validate
    /\ ~NoTokenAvailable
    /\ NoHttpScheme
    /\ cArgs.base_url = <<"h", "t", "t", "p", ":", "/", "/">>
    /\ cOut.error.kind = "ConfigurationError"

(***************************************************************************)
(* C11, C12: the connectivity probe and the configuration precedence       *)
(***************************************************************************)

\* the construction is over: a client was returned or an error was raised
Constructed == cPc \in {"done", "raised"}

\* the answers to the probe's requests
ProbeAnswers == [i \in 1..Len(cRequests) |-> cRequests[i].answer]

\* the kind of typed error an HTTP status stands for
KindOfStatus(status) ==
    IF status = 401 THEN "AuthenticationError"
    ELSE IF status = 404 THEN "NotFoundError"
    ELSE "APIError"

\* C11 as stated: the probe runs if and only if validate is true and lazy
\* is false.  A construction with validate = True and lazy = False whose
\* startup validation fails ends before the probe.
C11_ProbeIffFlags ==
    Constructed => ((cRequests # <<>>) <=> (cArgs.validate /\ ~cArgs.lazy))

\* C11: the probe runs if and only if validate is true, lazy is false and
\* the startup validation passed; it issues exactly one GET to /version; a
\* network failure fails the construction with ConfigurationError, an HTTP
\* failure with the typed error of the status (AuthenticationError for 401,
\* NotFoundError for 404, APIError otherwise) and never ConfigurationError;
\* a 2xx answer lets the construction return the client.
C11_ProbeOnceClassified ==
    /\ Len(cRequests) <= 1
    /\ \A i \in 1..Len(cRequests) : cRequests[i].endpoint = "/version"
    /\ Constructed =>
         /\ (cRequests # <<>>) <=>
                (cArgs.validate /\ ~cArgs.lazy /\ ~(NoTokenAvailable \/ NoHttpScheme))
         /\ cRequests # <<>> =>
               LET answer == ProbeAnswers[1]
               IN  IF answer.net
                   THEN /\ cOut.tag = "raise"
                        /\ cOut.error.kind = "ConfigurationError"
                   ELSE IF answer.status >= 200 /\ answer.status <= 299
                   THEN cOut.tag = "return"
                   ELSE /\ cOut.tag = "raise"
                        /\ cOut.error.kind = KindOfStatus(answer.status)
                        /\ cOut.error.kind # "ConfigurationError"

\* the probe ran and was answered 404: the construction raised NotFoundError
C11_Witness ==
    /\ cPc = "raised"
    /\ cArgs.validate /\ ~cArgs.lazy
    /\ Len(cRequests) = 1
    /\ ~ProbeAnswers[1].net
    /\ ProbeAnswers[1].status = 404
    /\ cOut.error.kind = "NotFoundError"

\* a value was given: neither None nor the empty string
Given(str) == str # <<"None">> /\ str # <<>>

\* the first of the sources that was given
FirstGiven(sources, default) ==
    IF \E i \in 1..Len(sources) : Given(sources[i])
    THEN sources[CHOOSE i \in 1..Len(sources) :
                    /\ Given(sources[i])
                    /\ \A j \in 1..(i - 1) : ~Given(sources[j])]
    ELSE default

\* stored is chosen without its trailing slashes
WithoutTrailingSlashes(stored, chosen) ==
    /\ Len(stored) <= Len(chosen)
    /\ stored = SubSeq(chosen, 1, Len(stored))
    /\ \A i \in (Len(stored) + 1)..Len(chosen) : chosen[i] = "/"
    /\ stored = <<>> \/ stored[Len(stored)] # "/"

\* C12: the stored token is the explicit argument if one was given, else
\* the GITLAB_TOKEN environment value; the stored base URL is the explicit
\* argument, else GITLAB_BASE_URL, else GITLAB_URL, else https://gitlab.com,
\* without trailing slashes, so it never ends with "/".
C12_ConfigPrecedence ==
    cPc # "idle" =>
        /\ self.token = IF Given(cArgs.token) THEN cArgs.token ELSE env.GITLAB_TOKEN
        /\ WithoutTrailingSlashes(
               self.base_url,
               FirstGiven(<<cArgs.base_url, env.GITLAB_BASE_URL, env.GITLAB_URL>>,
                          <<"h", "t", "t", "p", "s", ":", "/", "/",
                            "g", "i", "t", "l", "a", "b", ".", "c", "o", "m">>))
        /\ self.base_url = <<>> \/ self.base_url[Len(self.base_url)] # "/"

\* no arguments, GITLAB_BASE_URL empty: token and URL come from GITLAB_TOKEN
\* and GITLAB_URL, and the URL lost its trailing slash
C12_Witness ==
    /\ cPc = "done"
    /\ cArgs.token = <<"None">> /\ cArgs.base_url = <<"None">>
    /\ env.GITLAB_TOKEN = <<"e">>
    /\ env.GITLAB_BASE_URL = <<>>
    /\ env.GITLAB_URL = <<"e", "/">>
    /\ self.token = <<"e">>
    /\ self.base_url = <<"e">>

(***************************************************************************)
(* C13: the encoding of project identifiers                                *)
(***************************************************************************)

RECURSIVE Flatten(_)
\* the concatenation of a sequence of strings
Flatten(pieces) ==
    IF pieces = <<>> THEN <<>> ELSE Head(pieces) \o Flatten(Tail(pieces))

\* str with every character that has an escape replaced by it
Escaped(str, escapes) ==
    Flatten([i \in 1..Len(str) |->
                IF str[i] \in DOMAIN escapes THEN escapes[str[i]] ELSE <<str[i]>>])

SlashEscape == "/" :> <<"%", "2", "F">>

\* the percent-escapes of the characters that are not letters, digits or
\* one of _ . - ~
ReservedEscapes ==
    "/" :> <<"%", "2", "F">> @@ " " :> <<"%", "2", "0">> @@
    "%" :> <<"%", "2", "5">> @@ ":" :> <<"%", "3", "A">>

HasSlash(str) == \E i \in 1..Len(str) : str[i] = "/"

Numeric(str) ==
    /\ str # <<>>
    /\ \A i \in 1..Len(str) :
          str[i] \in {"0", "1", "2", "3", "4", "5", "6", "7", "8", "9"}

\* C13 as stated: the result is the identifier with every "/" replaced by
\* "%2F" and no other character altered.  quote(safe="") also escapes the
\* space, "%", ":" and every other character outside letters, digits, _.-~
C13_OnlySlashAltered ==
    encoded_id # NoneStr =>
        /\ encoded_id = Escaped(project_id, SlashEscape)
        /\ ~HasSlash(encoded_id)
        /\ Numeric(project_id) => encoded_id = project_id

\* C13: the result is the identifier with every "/" replaced by "%2F" and
\* every other character outside letters, digits and _ . - ~ replaced by
\* its percent-escape; letters, digits and _ . - ~ are not altered; the
\* result holds no "/"; a purely numeric identifier is returned unchanged.
C13_PercentEncoded ==
    encoded_id # NoneStr =>
        /\ encoded_id = Escaped(project_id, ReservedEscapes)
        /\ ~HasSlash(encoded_id)
        /\ Numeric(project_id) => encoded_id = project_id

\* a nested path: both separators are escaped, the dot is kept
C13_Witness ==
    /\ project_id = <<"g", "/", "g", "/", ".">>
    /\ encoded_id = <<"g", "%", "2", "F", "g", "%", "2", "F", ".">>

(***************************************************************************)
(* C14: invalid inline payloads                                            *)
(***************************************************************************)

\* upload_file was called with an inline source (no path)
InlineSource == fPc # "idle" /\ "path" \notin DOMAIN source

\* str is base64: groups of four characters of A-Z a-z 0-9 + /, the last
\* group ending with at most two "="
WellFormedBase64(str) ==
    /\ Len(str) % 4 = 0
    /\ \E pads \in 0..2 :
          /\ pads <= Len(str)
          /\ \A i \in 1..Len(str) :
                IF i > Len(str) - pads THEN str[i] = "="
                ELSE \E j \in 1..64 : B64Alphabet[j] = str[i]

ServerVariables == [i \in 1..Len(pOut.value) |-> ServerVariable(pOut.value[i])]

\* C15: list_project_variables returns one record per variable the server
\* returned, in the same order, and no record has a "value" field or holds
\* the variable's value in another field, whatever fields the server's
\* object carries.
C15_NoValueExposed ==
    (lOut # NoneVal /\ lOut.tag = "return") =>
        /\ Len(lOut.value) = Len(ServerVariables)
        /\ \A i \in 1..Len(lOut.value) :
              /\ "value" \notin DOMAIN lOut.value[i]
              /\ lOut.value[i].key = ServerVariables[i].key
              /\ "value" \in DOMAIN ServerVariables[i] =>
                    \A f \in DOMAIN lOut.value[i] :
                        lOut.value[i][f] # ServerVariables[i].value

\* three variables over two pages, with and without a value and with an
\* unknown field
C15_Witness ==
    /\ lOut # NoneVal
    /\ lOut.tag = "return"
    /\ Len(lOut.value) >= 3
    /\ "value" \in DOMAIN ServerVariables[1]
    /\ \E i \in 1..Len(ServerVariables) : "value" \notin DOMAIN ServerVariables[i]
    /\ \E i \in 1..Len(ServerVariables) : "hidden" \in DOMAIN ServerVariables[i]

(***************************************************************************)
(* C16 .. C20: the paginator's ceiling, page size, warning and errors      *)
(***************************************************************************)

\* C16: get_paginated with max_pages = 0 issues no request and returns an
\* empty result, whatever the server holds.
C16_ZeroPagesNoRequest ==
    (pPc # "idle" /\ max_pages = 0) =>
        /\ pRequests = <<>>
        /\ pPc \in {"loop", "done"}
        /\ pPc = "done" => pOut = Returned(<<>>)

\* max_pages = 0 against a server whose first page holds items
C16_Witness ==
    /\ pPc = "done"
    /\ max_pages = 0
    /\ Len(serverPages) >= 1
    /\ NonEmptyPage(1)
    /\ pOut = Returned(<<>>)
    /\ pRequests = <<>>

\* the smaller of two integers
Min(a, b) == IF a <= b THEN a ELSE b

\* C17: every request of get_paginated carries per_page = min(requested,
\* 100), which is at most 100 and the same on every page of the call.
C17_PerPageClamped ==
    \A i \in 1..Len(pRequests) :
        /\ pRequests[i].per_page <= 100
        /\ pRequests[i].per_page = Min(per_page, 100)
        /\ pRequests[i].per_page = pRequests[1].per_page

\* 101 was requested and two pages were asked for with per_page = 100
C17_Witness ==
    /\ per_page = 101
    /\ Len(pRequests) >= 2
    /\ pRequests[1].per_page = 100
    /\ pRequests[2].per_page = 100
    /\ pRequests[2].page = 2

\* the loop of get_paginated is over
LoopExited == pPc \in {"exit", "done", "raised"} \/ (pPc = "loop" /\ ~(pages_fetched < max_pages))

\* C18 as stated: for every max_pages, pages_fetched <= max_pages and at
\* most max_pages requests when the loop exits.  With a negative max_pages
\* the loop exits at once with pages_fetched = 0 > max_pages.
C18_WithinAnyCeiling ==
    LoopExited => (pages_fetched <= max_pages /\ Len(pRequests) <= max_pages)

\* C18: for every max_pages >= 0 and every server, pages_fetched <=
\* max_pages and at most max_pages requests have been issued when the loop
\* exits, and at every moment before.
C18_WithinCeiling ==
    (pPc # "idle" /\ max_pages >= 0) =>
        /\ pages_fetched <= max_pages
        /\ Len(pRequests) <= max_pages

\* the ceiling stopped the loop: two pages fetched of a server that has more
C18_Witness ==
    /\ LoopExited
    /\ max_pages = 2
    /\ pages_fetched = 2
    /\ Len(pRequests) = 2
    /\ Len(serverPages) = 3
    /\ HoldsPages(3)

\* the last page asked for ended the data: it was empty, or it held items
\* and no next-page indicator
DataExhausted ==
    /\ pRequests # <<>>
    /\ LET p == pRequests[Len(pRequests)].page
       IN  \/ p > Len(serverPages)
           \/ /\ serverPages[p].kind = "ok"
              /\ serverPages[p].count = 0 \/ serverPages[p].next \in {"absent", "empty"}

\* C19: the "results may be incomplete" warning is not raised when the loop
\* ended because the data was exhausted, the case of a last page that is
\* page number max_pages included.
C19_NoWarningWhenExhausted ==
    (pPc = "done" /\ DataExhausted) => ~pWarned

\* C20: when the request for page k is answered with a non-2xx status
\* after pages 1..k-1 succeeded, get_paginated raises the typed error of
\* that status, returns nothing, and the failing request is the last.
C20_FailureOnPageK ==
    \A k \in 1..Len(pRequests) :
        LET p == pRequests[k].page
        IN  (p <= Len(serverPages) /\ serverPages[p].kind = "fail") =>
                /\ p = k
                /\ Len(pRequests) = k
                /\ pPc = "raised"
                /\ pOut.tag = "raise"
                /\ "value" \notin DOMAIN pOut
                /\ pOut.error.kind = KindOfStatus(serverPages[p].status)
                /\ pOut.error.kind # "AuthenticationError" =>
                      pOut.error.status_code = serverPages[p].status

\* two pages of items were accumulated and the third answered 404
C20_Witness ==
    /\ pPc = "raised"
    /\ Len(pRequests) = 3
    /\ pages_fetched = 2
    /\ Len(all_results) >= 2
    /\ serverPages[3].kind = "fail"
    /\ serverPages[3].status = 404
    /\ pOut.error.kind = "NotFoundError"

(***************************************************************************)
(* C21 .. C23: failures while polling and while enriching                  *)
(***************************************************************************)

\* the k-th status fetch failed: on the network or with a non-2xx status
FetchFailed(k) ==
    statusFetches[k].net \/ ~(statusFetches[k].status >= 200 /\ statusFetches[k].status <= 299)

\* C21: when the status fetch of iteration k fails, wait_for_pipeline
\* raises that fetch's error, builds and returns no result, and issues no
\* request after it: no further status fetch (hence no sleep and retry),
\* no job listing, no job log.
C21_StatusFailureAborts ==
    \A k \in 1..Len(statusFetches) :
        FetchFailed(k) =>
            /\ Len(statusFetches) = k
            /\ checks = k
            /\ wPc = "raised"
            /\ wOut.tag = "raise"
            /\ wOut.error.kind =
                  (IF statusFetches[k].net THEN "RequestError"
                   ELSE KindOfStatus(statusFetches[k].status))
            /\ result = NoneVal
            /\ jobFetches = <<>>
            /\ logFetches = <<>>

\* two fetches of a running pipeline, then a 500 on the third
C21_Witness ==
    /\ wPc = "raised"
    /\ Len(statusFetches) = 3
    /\ ~FetchFailed(1) /\ ~FetchFailed(2)
    /\ FetchFailed(3)
    /\ ~statusFetches[3].net
    /\ statusFetches[3].status = 500
    /\ wOut.error.kind = "APIError"

\* the failed jobs of the listing, cut to the five that are detailed
DetailedCount ==
    LET failed == Len(FailedPositions(ListedJobs))
    IN  IF failed < 5 THEN failed ELSE 5

\* C22: in a poll that ended in "failed" with include_failed_logs set, a
\* failed log fetch leaves that job's detail record in place with the
\* placeholder "(log unavailable)" as last_log_lines, the failed jobs after
\* it are still detailed, and the poll returns its result.
C22_LogFailurePlaceholder ==
    /\ Len(failed_job_details) = Len(logFetches)
    /\ \A i \in 1..Len(logFetches) :
          logFetches[i].got.tag = "raise" =>
              /\ wPc \in {"logs", "done"}
              /\ failed_job_details[i].id = logFetches[i].id
              /\ failed_job_details[i].last_log_lines =
                    <<"(", "l", "o", "g", " ", "u", "n", "a", "v", "a", "i", "l", "a", "b", "l", "e", ")">>
              /\ wPc = "done" =>
                    /\ wOut.tag = "return"
                    /\ Len(logFetches) = DetailedCount
                    /\ wOut.value.failed_jobs = failed_job_details
                    /\ wOut.value.final_status = "failed"

\* three failed jobs: the first log fails with 404, the second is fetched,
\* the third fails on the network
C22_Witness ==
    /\ wPc = "done"
    /\ Len(logFetches) = 3
    /\ logFetches[1].got.tag = "raise"
    /\ logFetches[1].got.error.kind = "NotFoundError"
    /\ logFetches[2].got.tag = "return"
    /\ logFetches[3].got.tag = "raise"
    /\ logFetches[3].got.error.kind = "RequestError"
    /\ Len(wOut.value.failed_jobs) = 3
    /\ wOut.value.failed_jobs[2].last_log_lines = <<"1", "\n", "2">>

\* C23: when the job listing fails after a terminal status, the error is
\* swallowed: wait_for_pipeline returns the result with final_status,
\* total_duration and checks_performed and without job_summary and
\* failed_jobs, and fetches no job log.
C23_ListingFailureSwallowed ==
    (jobFetches # <<>> /\ jobFetches[1].tag = "raise") =>
        /\ Len(jobFetches) = 1
        /\ logFetches = <<>>
        /\ wPc = "done"
        /\ wOut.tag = "return"
        /\ DOMAIN wOut.value =
              {"final_status", "pipeline_id", "pipeline_url", "total_duration",
               "checks_performed"}
        /\ wOut.value.final_status \in {"success", "failed", "canceled", "skipped"}
        /\ wOut.value.final_status = FetchedStatus(Len(statusFetches))
        /\ wOut.value.checks_performed = Len(statusFetches)
        /\ wOut.value.total_duration = now - start_time

\* a pipeline that failed on the second check, logs wanted, and a job
\* listing answered 500
C23_Witness ==
    /\ wPc = "done"
    /\ jobFetches # <<>>
    /\ jobFetches[1].tag = "raise"
    /\ jobFetches[1].error.kind = "APIError"
    /\ wArgs.include_failed_logs
    /\ wOut.value.final_status = "failed"
    /\ wOut.value.checks_performed = 2
    /\ "job_summary" \notin DOMAIN wOut.value

(***************************************************************************)
(* C24 .. C26: the endpoint wrappers                                       *)
(***************************************************************************)

\* the answer to the wrapper's one request
Answer == oRequests[1].answer

\* the request was answered with a status outside 2xx
HttpFailure == oRequests # <<>> /\ ~Answer.net /\ ~IsSuccess(Answer.status)

\* C24: every operation that performs a single request classifies an HTTP
\* failure with the same mapping: AuthenticationError for 401,
\* NotFoundError for 404 and APIError for every other status outside 2xx.
\* merge_mr answered 401 or 404 raises APIError.
C24_UniformClassification ==
    HttpFailure =>
        /\ oOut.tag = "raise"
        /\ oOut.error.kind = KindOfStatus(Answer.status)

\* the part of C24 that holds: every wrapper but merge_mr classifies with
\* the mapping, and merge_mr raises APIError with the status whatever it is
C24_AllButMergeMr ==
    HttpFailure =>
        /\ oOut.tag = "raise"
        /\ (oCall.op # "merge_mr" => oOut.error.kind = KindOfStatus(Answer.status))
        /\ (oCall.op = "merge_mr" =>
              /\ oOut.error.kind = "APIError"
              /\ oOut.error.status_code = Answer.status)

\* the headers carry the token of the client, or no token header when the
\* client has none
TokenHeaderIffToken(headers) ==
    IF Truthy(self.token)
    THEN "PRIVATE-TOKEN" \in DOMAIN headers /\ headers["PRIVATE-TOKEN"] = self.token
    ELSE "PRIVATE-TOKEN" \notin DOMAIN headers

\* C25: on every request of any operation, upload_file included, the
\* PRIVATE-TOKEN header carries the configured token when a token is
\* present, and no PRIVATE-TOKEN header is sent when the client has no
\* token.  upload_file on a lazily constructed client without a token sends
\* the header with the text "None".
C25_TokenHeaderIffToken ==
    /\ \A i \in 1..Len(fRequests) : TokenHeaderIffToken(fRequests[i].headers)
    /\ \A i \in 1..Len(oRequests) : TokenHeaderIffToken(oRequests[i].headers)

\* the part of C25 that holds for upload_file: the configured token is sent
\* when there is one
C25_UploadCarriesToken ==
    \A i \in 1..Len(fRequests) :
        Truthy(self.token) => TokenHeaderIffToken(fRequests[i].headers)

\* the part of C25 that holds as stated: the requests issued through
\* self.client
C25_ClientRequestsCarryToken ==
    \A i \in 1..Len(oRequests) : TokenHeaderIffToken(oRequests[i].headers)

\* create_mr_discussion was called and has issued its request
DiscussionPosted == oRequests # <<>> /\ oCall.op = "create_mr_discussion"

\* the request's position holds file_path as new_path and old_path, and of
\* the optional fields in `fields` exactly those the given position holds,
\* each with its value
PositionCarries(fields) ==
    LET data == oRequests[1].json
        given == oCall.position
    IN  /\ "position" \in DOMAIN data
        /\ data.position.new_path = given.file_path
        /\ data.position.old_path = given.file_path
        /\ \A k \in fields :
              IF k \in DOMAIN given
              THEN k \in DOMAIN data.position /\ data.position[k] = given[k]
              ELSE k \notin DOMAIN data.position

\* C26: create_mr_discussion with a diff position transmits every field
\* present in the given position and no field absent from it; without a
\* position the request body has no position entry.  A position that holds
\* new_line_content or old_line_content is transmitted without them.
C26_PresentFieldsTransmitted ==
    DiscussionPosted =>
        IF oCall.position = NoneVal THEN "position" \notin DOMAIN oRequests[1].json
        ELSE PositionCarries(OptionalFields)

\* the part of C26 that holds: the line numbers and the SHA references are
\* transmitted exactly when given, and nothing is sent without a position
C26_CopiedFieldsTransmitted ==
    DiscussionPosted =>
        IF oCall.position = NoneVal THEN "position" \notin DOMAIN oRequests[1].json
        ELSE PositionCarries(CopiedKeys)

(***************************************************************************)
(* C27 .. C30: the polling loop and the clock                              *)
(***************************************************************************)

\* wait_for_pipeline has returned a result
PollReturned == wPc = "done" /\ wOut.tag = "return"

\* wait_for_pipeline has returned with final_status "timeout"
TimeoutReturned == PollReturned /\ wOut.value.final_status = "timeout"

\* by how much the elapsed time at return exceeds timeout_seconds
Overrun == wOut.value.total_duration - wArgs.timeout_seconds

RECURSIVE Longest(_)
\* the longest of the durations in a sequence
Longest(times) ==
    IF times = <<>> THEN 0
    ELSE LET rest == Longest(Tail(times))
         IN  IF Head(times) > rest THEN Head(times) ELSE rest

\* C27 as stated: a call that ends with final_status "timeout" returns at
\* most one status fetch plus one check_interval after timeout_seconds,
\* even when the one status fetch is the longest of the call.  The elapsed
\* time is read before the fetch of an iteration and tested after it, so the
\* last iteration adds a whole fetch to an elapsed time that was already
\* past the bound.
C27_OverrunOneFetch ==
    TimeoutReturned => Overrun <= Longest(fetchTimes) + wArgs.check_interval

\* C27, amended: with timeout_seconds not negative, a call that ends with
\* final_status "timeout" has made at least two status fetches and returns
\* at most the last two status fetches plus one check_interval after
\* timeout_seconds.
C27_OverrunTwoFetches ==
    (TimeoutReturned /\ wArgs.timeout_seconds >= 0) =>
        LET n == Len(fetchTimes)
        IN  /\ n >= 2
            /\ Overrun > fetchTimes[n]
            /\ Overrun <= fetchTimes[n - 1] + fetchTimes[n] + wArgs.check_interval

\* a timeout return whose overrun is two fetches and one interval
C27_Witness ==
    /\ TimeoutReturned
    /\ wArgs.timeout_seconds = 2
    /\ wArgs.check_interval = 1
    /\ Len(fetchTimes) = 3
    /\ fetchTimes[2] = 1
    /\ fetchTimes[3] = 1
    /\ Overrun = 3

\* the loop has ended with a final status
LoopEnded == wPc \in {"post", "jobs", "logs", "done"}

\* C28: every result wait_for_pipeline returns, on every path, holds
\* final_status, total_duration and checks_performed; final_status is one
\* of success, failed, canceled, skipped and timeout; checks_performed is
\* at least 1 and is the number of status fetches issued.
C28_ResultShape ==
    /\ result # NoneVal =>
          /\ {"final_status", "total_duration", "checks_performed"} \subseteq DOMAIN result
          /\ result.final_status \in TerminalStatuses \cup {"timeout"}
          /\ result.checks_performed >= 1
          /\ result.checks_performed = Len(statusFetches)
          /\ result.total_duration = now - start_time
    /\ PollReturned =>
          /\ result # NoneVal
          /\ \A key \in DOMAIN result : key \in DOMAIN wOut.value /\ wOut.value[key] = result[key]
          /\ DOMAIN wOut.value \subseteq DOMAIN result \cup {"job_summary", "failed_jobs"}

\* results on the three paths are all reached; this one went through the
\* job listing and the log fetches
C28_Witness ==
    /\ PollReturned
    /\ wOut.value.final_status = "failed"
    /\ wOut.value.checks_performed = 2
    /\ "failed_jobs" \in DOMAIN wOut.value
    /\ wOut.value.total_duration > 0

\* C29: a terminal status takes precedence over the timeout: a status fetch
\* that returns success, failed, canceled or skipped is the last one and
\* its status is the final status, whatever the elapsed time; "timeout" is
\* reported only after a fetch that returned a non-terminal status with the
\* elapsed time past the bound; and once the final status is set there is
\* neither a sleep nor a fetch: the clock stands where the last fetch left
\* it.
C29_TerminalBeforeTimeout ==
    /\ \A k \in 1..Len(statusFetches) :
          (FetchOk(k) /\ FetchedStatus(k) \in TerminalStatuses) =>
              /\ k = Len(statusFetches)
              /\ LoopEnded
              /\ final_status = FetchedStatus(k)
    /\ final_status = "timeout" =>
          /\ LoopEnded
          /\ FetchOk(Len(statusFetches))
          /\ FetchedStatus(Len(statusFetches)) \notin TerminalStatuses
          /\ elapsed > wArgs.timeout_seconds
    /\ LoopEnded <=> final_status # "None"
    /\ LoopEnded =>
          /\ checks = Len(statusFetches)
          /\ now - start_time = elapsed + fetchTimes[Len(fetchTimes)]

\* a terminal status fetched when the bound was already passed, after a
\* sleep that the clock shows
C29_Witness ==
    /\ PollReturned
    /\ Len(statusFetches) = 2
    /\ FetchedStatus(2) = "success"
    /\ elapsed > wArgs.timeout_seconds
    /\ wArgs.timeout_seconds >= 0
    /\ wArgs.check_interval = 1
    /\ wOut.value.final_status = "success"

\* C30: wait_for_pipeline eventually returns: when every status fetch
\* completes without error and the clock advances on each iteration, a call
\* that has entered the loop returns a result, whatever statuses the
\* pipeline reports, a pipeline that never reaches a terminal status
\* included.
C30_EventuallyReturns == (wPc = "loop") ~> PollReturned

\* a pipeline that never reached a terminal status, left after three
\* iterations
C30_Witness ==
    /\ TimeoutReturned
    /\ NeverTerminal
    /\ Len(statusFetches) = 3
    /\ wArgs.timeout_seconds = 1

====
